---- MODULE Spec2Model ----
(***************************************************************************)
(* Model of the deterministic scoring engine (scoring.js) of the Amazon    *)
(* optimizer extension.                                                    *)
(*                                                                         *)
(* JavaScript numbers are modelled as exact rationals extended with        *)
(* Infinity, -Infinity and NaN (the rounding error of double arithmetic is *)
(* not modelled); null and undefined are values of the same shape, so that *)
(* every JavaScript value the scoring code computes with is a record       *)
(* [k, n, d]:                                                              *)
(*    k = "num"   the rational n/d (d > 0, lowest terms)                   *)
(*    k = "inf"   Infinity          k = "ninf"  -Infinity                  *)
(*    k = "nan"   NaN                                                      *)
(*    k = "null"  null              k = "undef" undefined / missing field  *)
(***************************************************************************)
EXTENDS Integers, Sequences, FiniteSets, TLC

\* ------------------------------------------------------------------------
\* JavaScript values and arithmetic
\* ------------------------------------------------------------------------

RECURSIVE GCD(_, _)
GCD(a, b) == IF b = 0 THEN a ELSE GCD(b, a % b)

Abs(i) == IF i < 0 THEN -i ELSE i

\* The rational n/d (d # 0) in lowest terms with a positive denominator.
Num(n, d) ==
    IF d = 1 THEN [k |-> "num", n |-> n, d |-> 1]
    ELSE LET g == GCD(Abs(n), Abs(d))
             s == IF d < 0 THEN -1 ELSE 1
         IN  [k |-> "num", n |-> (s * n) \div g, d |-> (s * d) \div g]

IntNum(i) == [k |-> "num", n |-> i, d |-> 1]

Infinity == [k |-> "inf", n |-> 0, d |-> 1]
NegInfinity == [k |-> "ninf", n |-> 0, d |-> 1]
NaN == [k |-> "nan", n |-> 0, d |-> 1]
Null == [k |-> "null", n |-> 0, d |-> 1]
Undefined == [k |-> "undef", n |-> 0, d |-> 1]

\* ToNumber: null converts to 0, undefined to NaN.
ToNumber(x) ==
    CASE x.k = "null" -> IntNum(0)
      [] x.k = "undef" -> NaN
      [] OTHER -> x

IsNaN(x) == ToNumber(x).k = "nan"

\* The global isFinite(x): ToNumber(x) is neither NaN nor an infinity.
isFinite(x) == ToNumber(x).k = "num"

\* ToBoolean of a number, null or undefined: 0, NaN, null, undefined are falsy.
Truthy(x) == \/ x.k \in {"inf", "ninf"}
             \/ x.k = "num" /\ x.n # 0

\* a || b
Or(a, b) == IF Truthy(a) THEN a ELSE b

\* Sign of a non-NaN number: -1, 0, 1.
Sign(x) ==
    CASE x.k = "inf" -> 1
      [] x.k = "ninf" -> -1
      [] OTHER -> IF x.n > 0 THEN 1 ELSE IF x.n < 0 THEN -1 ELSE 0

SignedInf(s) == IF s > 0 THEN Infinity ELSE NegInfinity

\* a < b on numbers (false when either is NaN).
Lt(a0, b0) ==
    LET a == ToNumber(a0)
        b == ToNumber(b0)
    IN  CASE a.k = "nan" \/ b.k = "nan" -> FALSE
          [] a.k = "inf" -> FALSE
          [] b.k = "ninf" -> FALSE
          [] a.k = "ninf" -> TRUE
          [] b.k = "inf" -> TRUE
          [] OTHER -> a.n * b.d < b.n * a.d

Gt(a, b) == Lt(b, a)
Le(a0, b0) == ~IsNaN(a0) /\ ~IsNaN(b0) /\ ~Lt(b0, a0)
Ge(a, b) == Le(b, a)

\* a + b
Add(a0, b0) ==
    LET a == ToNumber(a0)
        b == ToNumber(b0)
    IN  CASE a.k = "nan" \/ b.k = "nan" -> NaN
          [] a.k = "num" /\ b.k = "num" -> Num(a.n * b.d + b.n * a.d, a.d * b.d)
          [] a.k = "num" -> b
          [] b.k = "num" -> a
          [] OTHER -> IF a.k = b.k THEN a ELSE NaN

\* -a
Neg(a0) ==
    LET a == ToNumber(a0)
    IN  CASE a.k = "nan" -> NaN
          [] a.k = "inf" -> NegInfinity
          [] a.k = "ninf" -> Infinity
          [] OTHER -> [a EXCEPT !.n = -a.n]

\* a - b
Sub(a, b) == Add(a, Neg(b))

\* a * b
Mul(a0, b0) ==
    LET a == ToNumber(a0)
        b == ToNumber(b0)
    IN  CASE a.k = "nan" \/ b.k = "nan" -> NaN
          [] a.k = "num" /\ b.k = "num" -> Num(a.n * b.n, a.d * b.d)
          [] Sign(a) = 0 \/ Sign(b) = 0 -> NaN
          [] OTHER -> SignedInf(Sign(a) * Sign(b))

\* a / b
Div(a0, b0) ==
    LET a == ToNumber(a0)
        b == ToNumber(b0)
    IN  CASE a.k = "nan" \/ b.k = "nan" -> NaN
          [] a.k = "num" /\ b.k = "num" ->
                IF b.n # 0 THEN Num(a.n * b.d, a.d * b.n)
                ELSE IF a.n = 0 THEN NaN ELSE SignedInf(Sign(a))
          [] a.k = "num" -> IntNum(0)
          [] b.k = "num" -> SignedInf(Sign(a) * (IF Sign(b) < 0 THEN -1 ELSE 1))
          [] OTHER -> NaN

\* Math.max(a, b) and Math.min(a, b): NaN when either argument is NaN.
Max2(a0, b0) ==
    LET a == ToNumber(a0)
        b == ToNumber(b0)
    IN  IF a.k = "nan" \/ b.k = "nan" THEN NaN
        ELSE IF Lt(a, b) THEN b ELSE a

Min2(a0, b0) ==
    LET a == ToNumber(a0)
        b == ToNumber(b0)
    IN  IF a.k = "nan" \/ b.k = "nan" THEN NaN
        ELSE IF Lt(b, a) THEN b ELSE a

\* Math.max(...xs, last): the maximum of the values of xs and of last.
RECURSIVE MathMax(_, _)
MathMax(xs, last) ==
    IF xs = <<>> THEN ToNumber(last)
    ELSE Max2(Head(xs), MathMax(Tail(xs), last))

\* Rounding towards minus infinity instead of to the nearest integer.
MathRoundDown(x0) ==
    LET x == ToNumber(x0)
    IN  IF x.k = "num" THEN IntNum(x.n \div x.d) ELSE x

\* Math.round(x): the integer nearest to x, halves rounded up.
MathRound(x0) ==
    LET x == ToNumber(x0)
    IN  IF x.k = "num" THEN IntNum((2 * x.n + x.d) \div (2 * x.d)) ELSE x

\* Math.log(x) for x a power of ten, in units of ln(10): only quotients of
\* two logarithms are computed, so the unit cancels.  The review counts of
\* the model are powers of ten, which keeps the quotient an exact rational.
MathLog(x0) ==
    LET x == ToNumber(x0)
    IN  CASE x.k = "nan" -> NaN
          [] x.k = "inf" -> Infinity
          [] x.k = "ninf" -> NaN
          [] Sign(x) < 0 -> NaN
          [] Sign(x) = 0 -> NegInfinity
          [] OTHER -> IntNum(CHOOSE e \in 0..9 : 10 ^ e = x.n /\ x.d = 1)

IsInteger(x) == x.k = "num" /\ x.d = 1

\* Reading a property of x (x.length, x.isPrime, x.match) throws a TypeError
\* exactly when x is null or undefined; x is any value with a kind field k.
ReadThrows(x) == x.k \in {"null", "undef"}

\* !x for a value that is an object, an array, null or undefined.
Absent(x) == x.k \in {"null", "undef"}

\* ------------------------------------------------------------------------
\* Strings: a title is [k |-> "str", s |-> <<characters>>], or null/undefined
\* ------------------------------------------------------------------------

Str(chars) == [k |-> "str", s |-> chars]
NoTitle == [k |-> "undef", s |-> <<>>]

DIGITS == <<"0", "1", "2", "3", "4", "5", "6", "7", "8", "9">>
UPPER == <<"A", "B", "C", "D", "E", "F", "G", "H", "I", "J", "K", "L", "M",
           "N", "O", "P", "Q", "R", "S", "T", "U", "V", "W", "X", "Y", "Z">>
LOWER == <<"a", "b", "c", "d", "e", "f", "g", "h", "i", "j", "k", "l", "m",
           "n", "o", "p", "q", "r", "s", "t", "u", "v", "w", "x", "y", "z">>

\* \d
IsDigit(c) == \E i \in DOMAIN DIGITS : DIGITS[i] = c
DigitVal(c) == (CHOOSE i \in DOMAIN DIGITS : DIGITS[i] = c) - 1

\* \s
IsSpace(c) == c \in {" ", "\t"}

\* [-–] (the en dash is written "endash")
IsDash(c) == c \in {"-", "endash"}

\* Case folding of the /i flag.
Lower(c) ==
    IF \E i \in DOMAIN UPPER : UPPER[i] = c
    THEN LOWER[CHOOSE i \in DOMAIN UPPER : UPPER[i] = c]
    ELSE c

\* The index after the longest run of digits of s that starts at i.
RECURSIVE DigitsEnd(_, _)
DigitsEnd(s, i) ==
    IF i <= Len(s) /\ IsDigit(s[i]) THEN DigitsEnd(s, i + 1) ELSE i

\* \s* from i: the index of the first character at or after i that is no space.
RECURSIVE SkipSpaces(_, _)
SkipSpaces(s, i) ==
    IF i <= Len(s) /\ IsSpace(s[i]) THEN SkipSpaces(s, i + 1) ELSE i

\* The literal w (lower case) occurs in s at i, ignoring case.
HasWord(s, i, w) ==
    /\ i + Len(w) - 1 <= Len(s)
    /\ \A j \in 1..Len(w) : Lower(s[i + j - 1]) = w[j]

HasAnyWord(s, i, ws) == \E w \in ws : HasWord(s, i, w)

\* The alternatives of QUANTITY_PATTERNS[0] and QUANTITY_PATTERNS[2].
UNIT_ALTERNATIVES ==
    { <<"c","o","u","n","t">>, <<"c","t">>, <<"p","a","c","k">>, <<"p","k">>,
      <<"p","c","s">>, <<"p","i","e","c","e","s">>, <<"u","n","i","t","s">>,
      <<"e","a">>, <<"e","a","c","h">>, <<"c","a","p","s","u","l","e","s">>,
      <<"t","a","b","l","e","t","s">>, <<"p","o","d","s">>,
      <<"s","h","e","e","t","s">>, <<"r","o","l","l","s">>, <<"b","a","g","s">>,
      <<"b","a","r","s">>, <<"c","a","n","s">>,
      <<"b","o","t","t","l","e","s">> }

PER_ALTERNATIVES ==
    { <<"b","o","x">>, <<"c","a","s","e">>, <<"p","a","c","k">>, <<"b","a","g">> }

NoMatch == [ok |-> FALSE, group |-> <<>>]
Matched(s, from, to) == [ok |-> TRUE, group |-> SubSeq(s, from, to - 1)]

\* Whether pattern k (1..5, the order of QUANTITY_PATTERNS) matches s starting
\* exactly at index i, and the text of its capture group 1.  \d+ and \s* are
\* greedy; giving back a digit or a space never lets the rest of a pattern
\* match, because what follows them in every pattern is neither.
MatchAt(k, s, i) ==
    CASE k = 1 ->
            \* (\d+)\s*[-–]?\s*(count|ct|...)
            IF i <= Len(s) /\ IsDigit(s[i])
            THEN LET e == DigitsEnd(s, i)
                     a == SkipSpaces(s, e)
                     b == IF a <= Len(s) /\ IsDash(s[a]) THEN a + 1 ELSE a
                     c == SkipSpaces(s, b)
                 IN  IF HasAnyWord(s, c, UNIT_ALTERNATIVES) \/ HasAnyWord(s, a, UNIT_ALTERNATIVES)
                     THEN Matched(s, i, e) ELSE NoMatch
            ELSE NoMatch
      [] k = 2 ->
            \* pack\s*of\s*(\d+)
            IF HasWord(s, i, <<"p","a","c","k">>)
            THEN LET a == SkipSpaces(s, i + 4)
                     b == SkipSpaces(s, a + 2)
                 IN  IF HasWord(s, a, <<"o","f">>) /\ b <= Len(s) /\ IsDigit(s[b])
                     THEN Matched(s, b, DigitsEnd(s, b)) ELSE NoMatch
            ELSE NoMatch
      [] k = 3 ->
            \* (\d+)\s*per\s*(box|case|pack|bag)
            IF i <= Len(s) /\ IsDigit(s[i])
            THEN LET e == DigitsEnd(s, i)
                     a == SkipSpaces(s, e)
                     b == SkipSpaces(s, a + 3)
                 IN  IF HasWord(s, a, <<"p","e","r">>) /\ HasAnyWord(s, b, PER_ALTERNATIVES)
                     THEN Matched(s, i, e) ELSE NoMatch
            ELSE NoMatch
      [] k = 4 ->
            \* set\s*of\s*(\d+)
            IF HasWord(s, i, <<"s","e","t">>)
            THEN LET a == SkipSpaces(s, i + 3)
                     b == SkipSpaces(s, a + 2)
                 IN  IF HasWord(s, a, <<"o","f">>) /\ b <= Len(s) /\ IsDigit(s[b])
                     THEN Matched(s, b, DigitsEnd(s, b)) ELSE NoMatch
            ELSE NoMatch
      [] OTHER ->
            \* (\d+)\s*x\s*\d
            IF i <= Len(s) /\ IsDigit(s[i])
            THEN LET e == DigitsEnd(s, i)
                     a == SkipSpaces(s, e)
                     b == SkipSpaces(s, a + 1)
                 IN  IF HasWord(s, a, <<"x">>) /\ b <= Len(s) /\ IsDigit(s[b])
                     THEN Matched(s, i, e) ELSE NoMatch
            ELSE NoMatch

\* The least element of a non-empty set of indices.
Least(indices) == CHOOSE i \in indices : \A j \in indices : i <= j

\* title.match(pattern): the leftmost match of pattern k in s.
MatchFrom(k, s, starts) ==
    IF starts = {} THEN NoMatch ELSE MatchAt(k, s, Least(starts))

Match(k, s) == MatchFrom(k, s, {i \in 1..Len(s) : MatchAt(k, s, i).ok})

\* parseInt(text, 10) of a non-empty string of digits.
RECURSIVE ParseInt(_)
ParseInt(ds) ==
    IF ds = <<>> THEN 0
    ELSE 10 * ParseInt(SubSeq(ds, 1, Len(ds) - 1)) + DigitVal(ds[Len(ds)])

\* The range test without its upper limit.
InRangeNoUpper(num) == num > 0

\* The range test without its lower limit.
InRangeNoLower(num) == num < 10000

\* num > 0 && num < 10000
InRange(num) == num > 0 /\ num < 10000

\* The body of the for loop of extractQuantity for pattern k, given the
\* result m of title.match(pattern) and what the rest of the loop returns.
LoopBody(m, rest) ==
    IF m.ok /\ InRange(ParseInt(m.group)) THEN ParseInt(m.group) ELSE rest

\* The for loop going through QUANTITY_PATTERNS from its last pattern to its first.
RECURSIVE ExtractFromReversed(_, _)
ExtractFromReversed(s, k) ==
    IF k > 5 THEN 1 ELSE LoopBody(Match(6 - k, s), ExtractFromReversed(s, k + 1))

\* The for loop of extractQuantity, from pattern k on.
RECURSIVE ExtractFrom(_, _)
ExtractFrom(s, k) ==
    IF k > 5 THEN 1 ELSE LoopBody(Match(k, s), ExtractFrom(s, k + 1))

\* !title: null, undefined and the empty string are falsy.
NoTitleGiven(title) == title.k # "str" \/ title.s = <<>>

extractQuantity(title) ==
    IF NoTitleGiven(title) THEN 1 ELSE ExtractFrom(title.s, 1)

\* extractQuantity throws when title.match is read of a missing title,
\* which the guard of line 45 excludes.
extractQuantityThrows(title) == ~NoTitleGiven(title) /\ ReadThrows(title)

\* ------------------------------------------------------------------------
\* Module state of scoring.js and the state of its callers
\* ------------------------------------------------------------------------

VARIABLES
    WEIGHTS_WITH_AI,     \* the module-level weight object, with sentiment
    WEIGHTS_WITHOUT_AI,  \* the module-level weight object, without sentiment
    products,            \* the batch a caller passes to scoreProducts
    aiSentiments,        \* the sentiment map a caller passes to scoreProducts
    ranked,              \* the latest scoreProducts call: its locals and result
    again,               \* the result of a second call with the same arguments
    callerWeights,       \* the object a caller got from getWeights
    unitCall,            \* the latest calculateUnitPrice call and its result
    directCall,          \* the latest direct call of another export and its result
    results,             \* what handleOptimize returns for the batch
    lastResults,         \* background.js: the results cached for the popup
    isOptimizing,        \* background.js: the flag of an active optimization
    requests,            \* the optimize messages and what each was answered
    cleared,             \* the requests received before the latest clearResults
    popup,               \* the response to the popup's latest getResults
    user,                \* server.js: the row of the user in the users table
    handlers,            \* server.js: the POST /api/ai requests being handled
    served,              \* the requests proxied with success in the usage period
    period,              \* the usage periods that have ended
    aiCall               \* ai.js: a call of callAI, its retries and its requests

\* The state of the background service worker and of its clients.
backgroundVars == <<lastResults, isOptimizing, requests, cleared, popup>>

\* The state of the backend server, its database and its clients.
backendVars == <<user, handlers, served, period>>

\* The state of a caller of ai.js.
aiVars == <<aiCall>>

\* The state outside scoring.js.
serviceVars == <<backgroundVars, backendVars, aiVars>>

scoringVars == <<WEIGHTS_WITH_AI, WEIGHTS_WITHOUT_AI, products, aiSentiments, ranked,
                 again, callerWeights, unitCall, directCall, results>>

vars == <<WEIGHTS_WITH_AI, WEIGHTS_WITHOUT_AI, products, aiSentiments, ranked,
          again, callerWeights, unitCall, directCall, results, serviceVars>>

\* The six dimension names, in the key order of both weight objects.
WEIGHT_KEYS ==
    <<"unitPrice", "rating", "reviewSentiment", "reviewCount", "shipping", "price">>

DIMENSIONS == {WEIGHT_KEYS[i] : i \in DOMAIN WEIGHT_KEYS}

Percent(i) == Num(i, 100)

InitialWeightsWithAI ==
    [key \in DIMENSIONS |->
        CASE key = "unitPrice" -> Percent(30)
          [] key = "rating" -> Percent(20)
          [] key = "reviewSentiment" -> Percent(15)
          [] key = "reviewCount" -> Percent(10)
          [] key = "shipping" -> Percent(15)
          [] OTHER -> Percent(10)]

InitialWeightsWithoutAI ==
    [key \in DIMENSIONS |->
        CASE key = "unitPrice" -> Percent(35)
          [] key = "rating" -> Percent(25)
          [] key = "reviewSentiment" -> IntNum(0)
          [] key = "reviewCount" -> Percent(15)
          [] key = "shipping" -> Percent(15)
          [] OTHER -> Percent(10)]

\* ------------------------------------------------------------------------
\* The functions of scoring.js
\* ------------------------------------------------------------------------

\* calculateUnitPrice dividing by the quantity as given.
calculateUnitPriceNoFloor(price, quantity) ==
    IF ~Truthy(price) \/ Le(price, IntNum(0)) THEN Infinity
    ELSE Div(price, quantity)

calculateUnitPrice(price, quantity) ==
    IF ~Truthy(price) \/ Le(price, IntNum(0)) THEN Infinity
    ELSE Div(price, Max2(quantity, IntNum(1)))

NoShipping == [k |-> "undef", isPrime |-> FALSE, isFree |-> FALSE, cost |-> Undefined]
Shipping(isPrime, isFree, cost) ==
    [k |-> "obj", isPrime |-> isPrime, isFree |-> isFree, cost |-> cost]

\* getShippingScore returning 0 for a product without a shipping struct.
getShippingScoreNoDefault(shipping) ==
    IF Absent(shipping) THEN IntNum(0)
    ELSE IF shipping.isPrime \/ shipping.isFree THEN IntNum(100)
    ELSE IF shipping.cost = IntNum(0) THEN IntNum(100)
    ELSE IF Truthy(shipping.cost) /\ Gt(shipping.cost, IntNum(0)) THEN IntNum(50)
    ELSE IntNum(25)

\* getShippingScore looking at the cost before the Prime and free flags.
getShippingScoreCostFirst(shipping) ==
    IF Absent(shipping) THEN IntNum(25)
    ELSE IF shipping.cost = IntNum(0) THEN IntNum(100)
    ELSE IF Truthy(shipping.cost) /\ Gt(shipping.cost, IntNum(0)) THEN IntNum(50)
    ELSE IF shipping.isPrime \/ shipping.isFree THEN IntNum(100)
    ELSE IntNum(25)

getShippingScore(shipping) ==
    IF Absent(shipping) THEN IntNum(25)
    ELSE IF shipping.isPrime \/ shipping.isFree THEN IntNum(100)
    ELSE IF shipping.cost = IntNum(0) THEN IntNum(100)
    ELSE IF Truthy(shipping.cost) /\ Gt(shipping.cost, IntNum(0)) THEN IntNum(50)
    ELSE IntNum(25)

\* getShippingScore throws when it reads isPrime of a missing struct, which
\* the guard of line 121 excludes.
getShippingScoreThrows(shipping) == ~Absent(shipping) /\ ReadThrows(shipping)

\* getWeights handing out the module object itself instead of a copy.
getWeightsShared(hasAI) ==
    [ref |-> IF hasAI THEN "WEIGHTS_WITH_AI" ELSE "WEIGHTS_WITHOUT_AI",
     val |-> IF hasAI THEN WEIGHTS_WITH_AI ELSE WEIGHTS_WITHOUT_AI]

\* getWeights with the two vectors the wrong way round.
getWeightsSwapped(hasAI) ==
    [ref |-> "fresh",
     val |-> IF hasAI THEN WEIGHTS_WITHOUT_AI ELSE WEIGHTS_WITH_AI]

\* getWeights returns a new object holding a copy of the selected module
\* object: ref tells which object the returned reference points to.
getWeights(hasAI) ==
    [ref |-> "fresh",
     val |-> IF hasAI THEN WEIGHTS_WITH_AI ELSE WEIGHTS_WITHOUT_AI]

NoSentiments == [k |-> "null", m |-> <<>>]
Sentiments(m) == [k |-> "obj", m |-> m]

\* hasAI that takes any non-null map, also an empty one, for a sentiment map.
HasAINonNull(sentiments) == sentiments.k = "obj"

\* aiSentiments && Object.keys(aiSentiments).length > 0
HasAI(sentiments) == sentiments.k = "obj" /\ DOMAIN sentiments.m # {}

\* aiSentiments[asin]
SentimentOf(sentiments, asin) ==
    IF asin \in DOMAIN sentiments.m THEN sentiments.m[asin] ELSE Undefined

\* obj[key] = val on an object given as a function from its keys.
SetKey(obj, key, val) ==
    [k \in DOMAIN obj \cup {key} |-> IF k = key THEN val ELSE obj[k]]

\* obj[key], undefined when obj has no such key.
GetKey(obj, key) == IF key \in DOMAIN obj THEN obj[key] ELSE Undefined

EmptyObject == [k \in {} |-> Undefined]

\* Enriched that writes quantity and unitPrice onto the input record itself.
EnrichedInPlace(p, quantity) ==
    [fresh |-> FALSE,
     quantity |-> quantity,
     unitPrice |-> calculateUnitPrice(p.price, quantity),
     score |-> Undefined,
     breakdown |-> EmptyObject,
     isBestValue |-> "undefined"] @@ p

\* Enriched that replaces missing raw fields by defaults in the copy.
EnrichedDefaulted(p, quantity) ==
    [fresh |-> TRUE,
     quantity |-> quantity,
     unitPrice |-> calculateUnitPrice(p.price, quantity),
     price |-> Or(p.price, IntNum(0)),
     rating |-> Or(p.rating, IntNum(0)),
     reviewCount |-> Or(p.reviewCount, IntNum(0)),
     score |-> Undefined,
     breakdown |-> EmptyObject,
     isBestValue |-> "undefined"] @@ p

\* { ...p, quantity, unitPrice: 0 } followed by
\* p.unitPrice = calculateUnitPrice(p.price, p.quantity).  The properties the
\* copy does not have yet (score, breakdown, isBestValue) are undefined.  The
\* object literal allocates a new object: fresh tells that the record is not
\* the input record p itself.
Enriched(p, quantity) ==
    [fresh |-> TRUE,
     quantity |-> quantity,
     unitPrice |-> calculateUnitPrice(p.price, quantity),
     score |-> Undefined,
     breakdown |-> EmptyObject,
     isBestValue |-> "undefined"] @@ p

\* The element of enriched made from p: quantity is extractQuantity(p.title).
Enrich(p) == Enriched(p, IntNum(extractQuantity(p.title)))

IsFinitePrice(p) == isFinite(p.price) /\ Gt(p.price, IntNum(0))
IsFiniteUnitPrice(p) == isFinite(p.unitPrice)

\* The price maximum without its floor of 1 (0 for a batch without prices).
MaxPriceUnfloored(enriched) ==
    LET finitePrices == SelectSeq(enriched, IsFinitePrice)
    IN  MathMax([i \in DOMAIN finitePrices |-> finitePrices[i].price], IntNum(0))

\* The price maximum taken from the first priced product alone.
MaxPriceOfFirst(enriched) ==
    LET finitePrices == SelectSeq(enriched, IsFinitePrice)
    IN  MathMax([i \in DOMAIN finitePrices \cap {1} |-> finitePrices[i].price], IntNum(1))

\* Math.max(...finitePrices.map(p => p.price), 1)
MaxPrice(enriched) ==
    LET finitePrices == SelectSeq(enriched, IsFinitePrice)
    IN  MathMax([i \in DOMAIN finitePrices |-> finitePrices[i].price], IntNum(1))

\* The unit-price maximum taken over all products, the sentinel included.
MaxUnitPriceUnfiltered(enriched) ==
    MathMax([i \in DOMAIN enriched |-> enriched[i].unitPrice], IntNum(1))

\* Math.max(...finiteUnitPrices.map(p => p.unitPrice), 1)
MaxUnitPrice(enriched) ==
    LET finiteUnitPrices == SelectSeq(enriched, IsFiniteUnitPrice)
    IN  MathMax([i \in DOMAIN finiteUnitPrices |-> finiteUnitPrices[i].unitPrice],
                IntNum(1))

\* Math.max(...enriched.map(p => p.reviewCount || 0), 1)
MaxReviews(enriched) ==
    MathMax([i \in DOMAIN enriched |-> Or(enriched[i].reviewCount, IntNum(0))],
            IntNum(1))

\* The unit-price sub-score in which a higher unit price scores higher.
UnitPriceScoreHigherIsBetter(p, maxUnitPrice) ==
    IF isFinite(p.unitPrice)
    THEN Mul(Div(p.unitPrice, maxUnitPrice), IntNum(100))
    ELSE IntNum(0)

UnitPriceScore(p, maxUnitPrice) ==
    IF isFinite(p.unitPrice)
    THEN Mul(Sub(IntNum(1), Div(p.unitPrice, maxUnitPrice)), IntNum(100))
    ELSE IntNum(0)

RatingScore(p) == Mul(Div(Or(p.rating, IntNum(0)), IntNum(5)), IntNum(100))

\* The review-count sub-score on a linear scale instead of a logarithmic one.
ReviewCountScoreLinear(p, maxReviews) ==
    IF Gt(maxReviews, IntNum(1))
    THEN Mul(Div(Max2(Or(p.reviewCount, IntNum(1)), IntNum(1)), maxReviews),
             IntNum(100))
    ELSE IntNum(50)

\* breakdown.reviewCount of a product in a batch with the given maximum
ReviewCountScore(p, maxReviews) ==
    IF Gt(maxReviews, IntNum(1))
    THEN Mul(Div(MathLog(Max2(Or(p.reviewCount, IntNum(1)), IntNum(1))),
                 MathLog(maxReviews)),
             IntNum(100))
    ELSE IntNum(50)

PriceScore(p, maxPrice) ==
    IF isFinite(p.price) /\ Gt(p.price, IntNum(0))
    THEN Mul(Sub(IntNum(1), Div(p.price, maxPrice)), IntNum(100))
    ELSE IntNum(0)

SentimentScore(p, hasAI, sentiments) ==
    IF hasAI /\ Truthy(SentimentOf(sentiments, p.asin))
    THEN SentimentOf(sentiments, p.asin)
    ELSE IntNum(0)

\* A breakdown that gets its sentiment entry only when a map was supplied.
BreakdownSentimentOptional(p, maxPrice, maxUnitPrice, maxReviews, hasAI, sentiments) ==
    LET b1 == SetKey(EmptyObject, "unitPrice", UnitPriceScore(p, maxUnitPrice))
        b2 == SetKey(b1, "rating", RatingScore(p))
        b3 == SetKey(b2, "reviewCount", ReviewCountScore(p, maxReviews))
        b4 == SetKey(b3, "shipping", getShippingScore(p.shipping))
        b5 == SetKey(b4, "price", PriceScore(p, maxPrice))
    IN  IF hasAI
        THEN SetKey(b5, "reviewSentiment", SentimentScore(p, hasAI, sentiments))
        ELSE b5

\* The breakdown object, built key by key as lines 174..200 do.
Breakdown(p, maxPrice, maxUnitPrice, maxReviews, hasAI, sentiments) ==
    LET b1 == SetKey(EmptyObject, "unitPrice", UnitPriceScore(p, maxUnitPrice))
        b2 == SetKey(b1, "rating", RatingScore(p))
        b3 == SetKey(b2, "reviewCount", ReviewCountScore(p, maxReviews))
        b4 == SetKey(b3, "shipping", getShippingScore(p.shipping))
        b5 == SetKey(b4, "price", PriceScore(p, maxPrice))
    IN  SetKey(b5, "reviewSentiment", SentimentScore(p, hasAI, sentiments))

\* Object.keys(weights).reduce((sum, key) => sum + (breakdown[key] || 0) * weights[key], 0),
\* over the keys from index i on.
RECURSIVE WeightedSum(_, _, _, _)
WeightedSum(breakdown, weights, i, sum) ==
    IF i > Len(WEIGHT_KEYS) THEN sum
    ELSE WeightedSum(breakdown, weights, i + 1,
            Add(sum, Mul(Or(GetKey(breakdown, WEIGHT_KEYS[i]), IntNum(0)),
                         weights[WEIGHT_KEYS[i]])))

\* Rounding without the clamp.
ClampMissing(score) == MathRound(score)

\* Math.round(Math.max(0, Math.min(100, score)))
Clamp(score) == MathRound(Max2(IntNum(0), Min2(IntNum(100), score)))

ScoreOne(p, maxPrice, maxUnitPrice, maxReviews, hasAI, sentiments, weights) ==
    LET breakdown == Breakdown(p, maxPrice, maxUnitPrice, maxReviews, hasAI, sentiments)
    IN  [p EXCEPT !.score = Clamp(WeightedSum(breakdown, weights, 1, IntNum(0))),
                  !.breakdown = breakdown]

\* The comparator (a, b) => b.score - a.score; a NaN result counts as 0.
Compare(a, b) ==
    LET c == Sub(b.score, a.score)
    IN  IF IsNaN(c) THEN 0 ELSE Sign(c)

\* An unstable insertion: x goes in front of the elements it ties with.
RECURSIVE InsertSortedUnstable(_, _)
InsertSortedUnstable(sorted, x) ==
    IF sorted = <<>> THEN <<x>>
    ELSE IF Compare(Head(sorted), x) < 0
         THEN <<Head(sorted)>> \o InsertSortedUnstable(Tail(sorted), x)
         ELSE <<x>> \o sorted

\* Array.prototype.sort is stable: x is inserted behind every element that
\* does not have to come after it.
RECURSIVE InsertSorted(_, _)
InsertSorted(sorted, x) ==
    IF sorted = <<>> THEN <<x>>
    ELSE IF Compare(Head(sorted), x) <= 0
         THEN <<Head(sorted)>> \o InsertSorted(Tail(sorted), x)
         ELSE <<x>> \o sorted

RECURSIVE Sort(_, _)
Sort(xs, sorted) ==
    IF xs = <<>> THEN sorted ELSE Sort(Tail(xs), InsertSorted(sorted, Head(xs)))

\* Tagging the last element of the sorted list instead of the first.
TagWinnerLast(enriched) ==
    IF Len(enriched) > 0
    THEN [enriched EXCEPT ![Len(enriched)].isBestValue = "true"]
    ELSE enriched

\* enriched[0].isBestValue = true
TagWinner(enriched) ==
    IF Len(enriched) > 0
    THEN [enriched EXCEPT ![1].isBestValue = "true"]
    ELSE enriched

\* The state of ranked before any call.
NotCalled ==
    [done |-> FALSE, threw |-> FALSE, input |-> <<>>, sentiments |-> NoSentiments,
     hasAI |-> FALSE,
     weights |-> EmptyObject, maxPrice |-> Undefined,
     maxUnitPrice |-> Undefined, maxReviews |-> Undefined, list |-> <<>>]

\* The scoring loop, the sort and the tagging of scoreProducts, given its
\* locals: the locals and the list it returns.
ScoreEnriched(enriched, maxPrice, maxUnitPrice, maxReviews, hasAI, sentiments, weights) ==
    [done |-> TRUE,
     threw |-> \E i \in DOMAIN enriched : getShippingScoreThrows(enriched[i].shipping),
     input |-> <<>>,
     sentiments |-> sentiments,
     hasAI |-> hasAI,
     weights |-> weights,
     maxPrice |-> maxPrice,
     maxUnitPrice |-> maxUnitPrice,
     maxReviews |-> maxReviews,
     list |-> TagWinner(Sort(
                 [i \in DOMAIN enriched |->
                     ScoreOne(enriched[i], maxPrice, maxUnitPrice, maxReviews,
                              hasAI, sentiments, weights)],
                 <<>>))]

\* scoreProducts from the normalization maxima on.
Normalize(enriched, hasAI, sentiments, weights) ==
    ScoreEnriched(enriched, MaxPrice(enriched), MaxUnitPrice(enriched),
                  MaxReviews(enriched), hasAI, sentiments, weights)

\* scoreProducts once hasAI is known.
ScoreBatch(batch, hasAI, sentiments) ==
    Normalize([i \in DOMAIN batch |-> Enrich(batch[i])], hasAI, sentiments,
              getWeights(hasAI).val)

\* The products argument: an array, null or undefined.
Array(items) == [k |-> "arr", items |-> items]
NullArray == [k |-> "null", items |-> <<>>]
UndefinedArray == [k |-> "undef", items |-> <<>>]

\* The guard of scoreProducts tested on the length alone.
EmptyGuardLengthOnly(batch) ==
    [threw |-> ReadThrows(batch),
     value |-> Len(batch.items) = 0]

\* !products || products.length === 0: its value, and whether evaluating
\* it throws (products.length is read only when products is truthy).
EmptyGuard(batch) ==
    [threw |-> ~Absent(batch) /\ ReadThrows(batch),
     value |-> Absent(batch) \/ Len(batch.items) = 0]

\* scoreProducts behind its guard: the guard threw, returned [], or let the
\* batch through.  input is the array the call was given.
Guarded(guard, batch, sentiments) ==
    IF guard.threw
    THEN [NotCalled EXCEPT !.done = TRUE, !.threw = TRUE, !.sentiments = sentiments]
    ELSE IF guard.value
    THEN [NotCalled EXCEPT !.done = TRUE, !.sentiments = sentiments]
    ELSE [ScoreBatch(batch.items, HasAI(sentiments), sentiments)
            EXCEPT !.input = batch.items]

\* One call of scoreProducts: its locals and the list it returns.
scoreProductsRun(batch, sentiments) == Guarded(EmptyGuard(batch), batch, sentiments)

scoreProducts(batch, sentiments) == scoreProductsRun(batch, sentiments).list

\* The input array after a call that returned list: an input record the
\* call wrote to is a record of list that is not fresh (the caller numbers
\* the products by position, so asin identifies the record); records the
\* call only read, and the order of the array (enriched is the new array
\* products.map returns, and it is enriched that is sorted), stay.
Written(p, list) == {j \in DOMAIN list : ~list[j].fresh /\ list[j].asin = p.asin}

ArgumentAfterCall(p, written, list) ==
    IF written = {} THEN p ELSE list[CHOOSE j \in written : TRUE]

ArgumentAfter(items, list) ==
    [i \in DOMAIN items |-> ArgumentAfterCall(items[i], Written(items[i], list), list)]

\* ------------------------------------------------------------------------
\* generateFallbackSummary
\* ------------------------------------------------------------------------

\* A text is [k |-> "str", s |-> <<sentences>>]: the sentences that
\* parts.join(' ') joins, each with the values its template interpolates.
\* The empty string is the text without a sentence.
Text(sentences) == [k |-> "str", s |-> sentences]
EmptyString == Text(<<>>)

Sentence(kind, title, a, b) == [s |-> kind, title |-> title, a |-> a, b |-> b]

\* x.toFixed(2): x rounded to hundredths, halves up; "Infinity" and "NaN"
\* for the values that are not finite.
toFixed2(x) ==
    IF x.k = "num"
    THEN [k |-> "fixed", n |-> (200 * x.n + x.d) \div (2 * x.d), d |-> 100]
    ELSE x

\* x.toLocaleString() of a number: its digits, grouped as the locale says.
toLocaleString(x) == [k |-> "locale", n |-> x.n, d |-> x.d]

\* `**${best.title}** is the top pick with a score of ${best.score}/100.`
WinnerSentence(best) == Sentence("winner", best.title, best.score, Undefined)

\* `At $${best.unitPrice.toFixed(2)} per unit (${best.quantity}-pack), ...`
UnitSentence(best) == Sentence("unit", NoTitle, toFixed2(best.unitPrice), best.quantity)

\* 'Ships free with Prime.'
ShippingSentence == Sentence("shipping", NoTitle, Undefined, Undefined)

\* `Rated ${best.rating}/5 stars with ${(best.reviewCount || 0).toLocaleString()} reviews.`
RatingSentence(best) ==
    Sentence("rating", NoTitle, best.rating,
             toLocaleString(Or(best.reviewCount, IntNum(0))))

\* `Runner-up: ${runner.title} (${runner.score}/100).`
RunnerSentence(runner) == Sentence("runner", runner.title, runner.score, Undefined)

\* The runner-up sentence naming the last entry of the list.
RunnerPartLast(list) ==
    IF Len(list) > 1 THEN <<RunnerSentence(list[Len(list)])>> ELSE <<>>

\* if (best.quantity > 1) parts.push(...)
UnitPart(best) ==
    IF Gt(best.quantity, IntNum(1)) THEN <<UnitSentence(best)>> ELSE <<>>

\* if (best.breakdown.shipping === 100) parts.push(...)
ShippingPart(best) ==
    IF GetKey(best.breakdown, "shipping") = IntNum(100) THEN <<ShippingSentence>> ELSE <<>>

\* if (best.rating >= 4.5) parts.push(...)
RatingPart(best) ==
    IF Ge(best.rating, Num(9, 2)) THEN <<RatingSentence(best)>> ELSE <<>>

\* if (rankedProducts.length > 1) parts.push(... rankedProducts[1] ...)
RunnerPart(list) ==
    IF Len(list) > 1 THEN <<RunnerSentence(list[2])>> ELSE <<>>

\* The summary of a non-empty list: parts, in the order they are pushed.
Parts(best, list) ==
    <<WinnerSentence(best)>> \o UnitPart(best) \o ShippingPart(best)
        \o RatingPart(best) \o RunnerPart(list)

generateFallbackSummary(rankedProducts) ==
    IF Absent(rankedProducts) \/ Len(rankedProducts.items) = 0 THEN EmptyString
    ELSE Text(Parts(rankedProducts.items[1], rankedProducts.items))

\* ------------------------------------------------------------------------
\* The end of handleOptimize (background.js) and writeDecisionReview (ai.js)
\* ------------------------------------------------------------------------

\* The narrative an AI response carries.
Narrative == Text(<<Sentence("narrative", NoTitle, Undefined, Undefined)>>)

\* What callAI and JSON.parse make of the AI's answer to the review prompt:
\*   "throws"   callAI throws (quota, network, HTTP error)
\*   "invalid"  the answer is not JSON, or is the JSON null
\*   "noReview" the answer is a JSON object without a review
\*   "empty"    the answer is {"review": ""}
\*   "review"   the answer is {"review": <Narrative>}
AI_RESPONSES == {"throws", "invalid", "noReview", "empty", "review"}

\* !x of a text: the empty string is falsy.
EmptyText(text) == text.s = <<>>

\* The try block of writeDecisionReview: parsed.review || '', and '' when
\* callAI or JSON.parse throws.
ReviewOf(response) == IF response = "review" THEN Narrative ELSE EmptyString

\* The prompt is built from the first five ranked products outside the try
\* block: (analysis.pros || []).join(', ') throws when the review analysis
\* of one of them has pros that are not an array.
PromptThrows(list, sentiments, malformedPros) ==
    /\ malformedPros
    /\ sentiments.k = "obj"
    /\ \E i \in DOMAIN list : i <= 5 /\ list[i].asin \in DOMAIN sentiments.m

\* writeDecisionReview(ranked, reviewAnalyses): the text it resolves to, or
\* threw when it rejects.  The keys of reviewAnalyses are those of the
\* sentiment map handleOptimize derives from it.
writeDecisionReview(list, sentiments, response, malformedPros) ==
    IF Len(list) = 0 THEN [threw |-> FALSE, text |-> EmptyString]
    ELSE IF PromptThrows(list, sentiments, malformedPros)
    THEN [threw |-> TRUE, text |-> EmptyString]
    ELSE [threw |-> FALSE, text |-> ReviewOf(response)]

\* Step 7 that asks for the fallback summary in every run.
Step7AlwaysFallback(aiAvailable, written, list) ==
    [fallback |-> TRUE, narrative |-> written, text |-> generateFallbackSummary(Array(list))]

\* Step 7 once the review is written: if (!decisionReview) decisionReview =
\* generateFallbackSummary(ranked).  narrative is what was written, fallback
\* tells whether generateFallbackSummary was called.
Step7(aiAvailable, written, list) ==
    IF EmptyText(written)
    THEN [fallback |-> TRUE, narrative |-> written,
          text |-> generateFallbackSummary(Array(list))]
    ELSE [fallback |-> FALSE, narrative |-> written, text |-> written]

\* x || false for isBestValue and isOriginal, which are true or undefined.
OrFalse(x) == IF x = "true" THEN "true" ELSE "false"

\* buildResults passing isBestValue on as scoreProducts left it.
BuildProductRaw(p, sentiments) ==
    [title |-> p.title, price |-> p.price, unitPrice |-> p.unitPrice,
     quantity |-> p.quantity, rating |-> p.rating, reviewCount |-> p.reviewCount,
     shipping |-> p.shipping, asin |-> p.asin, score |-> p.score,
     breakdown |-> p.breakdown,
     isBestValue |-> p.isBestValue,
     isOriginal |-> OrFalse(p.isOriginal),
     reviewAnalysis |-> sentiments.k = "obj" /\ p.asin \in DOMAIN sentiments.m]

\* One element of products in buildResults (imageUrl and url are not
\* modelled); reviewAnalysis tells whether reviewAnalyses[p.asin] exists.
BuildProduct(p, sentiments) ==
    [title |-> p.title, price |-> p.price, unitPrice |-> p.unitPrice,
     quantity |-> p.quantity, rating |-> p.rating, reviewCount |-> p.reviewCount,
     shipping |-> p.shipping, asin |-> p.asin, score |-> p.score,
     breakdown |-> p.breakdown,
     isBestValue |-> OrFalse(p.isBestValue),
     isOriginal |-> OrFalse(p.isOriginal),
     reviewAnalysis |-> sentiments.k = "obj" /\ p.asin \in DOMAIN sentiments.m]

NoResults ==
    [done |-> FALSE, failed |-> FALSE, aiUsed |-> FALSE, fallback |-> FALSE,
     narrative |-> EmptyString, decisionReview |-> EmptyString, products |-> <<>>]

\* handleOptimize rejects: no results are returned.
Failed(aiAvailable) == [NoResults EXCEPT !.done = TRUE, !.failed = TRUE, !.aiUsed = aiAvailable]

\* buildResults(product, ranked, reviewAnalyses, aiSentiments, decisionReview, aiUsed)
buildResults(list, sentiments, step7, aiUsed) ==
    [done |-> TRUE, failed |-> FALSE, aiUsed |-> aiUsed, fallback |-> step7.fallback,
     narrative |-> step7.narrative, decisionReview |-> step7.text,
     products |-> [i \in DOMAIN list |-> BuildProduct(list[i], sentiments)]]

\* handleOptimize from step 7 on, given what writeDecisionReview did (it is
\* called only when AI is available; decisionReview is '' before).
Step7AndReturn(list, sentiments, aiAvailable, review) ==
    IF aiAvailable /\ review.threw THEN Failed(aiAvailable)
    ELSE buildResults(list, sentiments,
                      Step7(aiAvailable,
                            IF aiAvailable THEN review.text ELSE EmptyString, list),
                      aiAvailable)

\* ------------------------------------------------------------------------
\* The inputs of the model
\* ------------------------------------------------------------------------

\* The largest batch a caller assembles.
MaxBatch == 3

TITLE_MOUSE == Str(<<"M","o","u","s","e">>)
TITLE_6CT == Str(<<"6"," ","c","t">>)
TITLE_PACK_OF_2 == Str(<<"P","a","c","k"," ","o","f"," ","2">>)

Raw(title, price, rating, reviewCount, shipping) ==
    [title |-> title, price |-> price, rating |-> rating,
     reviewCount |-> reviewCount, shipping |-> shipping]

\* Scraped listings: complete ones, one with a quantity in the title, and
\* ones with missing, zero, negative or out-of-range fields.
LISTING_A == Raw(TITLE_MOUSE, IntNum(20), IntNum(5), IntNum(1000), Shipping(TRUE, TRUE, Null))
LISTING_B == Raw(TITLE_MOUSE, IntNum(10), IntNum(3), IntNum(10), Shipping(FALSE, FALSE, Null))

LISTINGS ==
    { LISTING_A,
      LISTING_B,
      Raw(TITLE_6CT, IntNum(24), IntNum(4), IntNum(100), Shipping(FALSE, FALSE, IntNum(5))),
      Raw(NoTitle, Undefined, Undefined, Undefined, NoShipping),
      Raw(TITLE_PACK_OF_2, IntNum(0), Null, IntNum(0), Shipping(FALSE, FALSE, IntNum(0))),
      Raw(TITLE_MOUSE, Num(1, 2), IntNum(10), IntNum(10), NoShipping),
      Raw(TITLE_MOUSE, IntNum(-5), IntNum(-3), Null, Shipping(FALSE, FALSE, IntNum(-1))) }

\* The sentiment maps a caller passes: none, an empty one, and maps that
\* cover the batch in part, not at all, or with values outside 0..100.
SENTIMENT_MAPS ==
    { NoSentiments,
      Sentiments(EmptyObject),
      Sentiments((1 :> IntNum(150)) @@ (2 :> IntNum(-20))),
      Sentiments((1 :> IntNum(0)) @@ (3 :> IntNum(60))),
      Sentiments((2 :> IntNum(70)) @@ (9 :> IntNum(50))) }

\* The arguments of direct calculateUnitPrice calls.
PRICE_ARGS == {Undefined, Null, IntNum(0), IntNum(-5), IntNum(24), Num(1, 2), Infinity, NaN}
QUANTITY_ARGS == {IntNum(-2), IntNum(0), IntNum(1), IntNum(3), IntNum(6)}

NoCall == [done |-> FALSE, price |-> Undefined, quantity |-> Undefined, result |-> Undefined]

\* The longest title built from TITLE_PARTS, in parts.
MaxParts == 2

\* Pieces of titles: no quantity signal, and a signal for each pattern, with
\* numbers in range and out of range.
TITLE_PARTS ==
    { <<"M","o","u","s","e"," ">>,
      <<"0"," ","c","t"," ">>,
      <<"6"," ","c","t"," ">>,
      <<"1","0","0","0","0"," ","c","t"," ">>,
      <<"p","a","c","k"," ","o","f"," ","2"," ">>,
      <<"p","a","c","k"," ","o","f"," ","0"," ">>,
      <<"s","e","t"," ","o","f"," ","3"," ">>,
      <<"1","2"," ","p","e","r"," ","b","o","x"," ">>,
      <<"2","4"," ","x"," ","2"," ">>,
      <<"8","-","p","k"," ">> }

RECURSIVE Concat(_)
Concat(parts) == IF parts = <<>> THEN <<>> ELSE Head(parts) \o Concat(Tail(parts))

TITLE_WIRELESS_MOUSE == Str(<<"W","i","r","e","l","e","s","s"," ","M","o","u","s","e">>)
TITLE_PACK_OF_6_TOWELS == Str(<<"P","a","c","k"," ","o","f"," ","6"," ","T","o","w","e","l","s">>)
TITLE_VITAMIN_C ==
    Str(<<"V","i","t","a","m","i","n"," ","C"," ","5","0","0","m","g",","," ","1","2","0"," ","C","a","p","s","u","l","e","s">>)

\* The titles of direct extractQuantity calls: absent, empty, the examples
\* of the documentation, and every sequence of at most MaxParts parts.
TITLE_ARGS ==
    {NoTitle, [k |-> "null", s |-> <<>>], Str(<<>>),
     TITLE_WIRELESS_MOUSE, TITLE_PACK_OF_6_TOWELS, TITLE_VITAMIN_C}
    \cup {Str(Concat(parts)) : parts \in UNION {[1..n -> TITLE_PARTS] : n \in 1..MaxParts}}

\* The batches of direct scoreProducts calls that are empty or absent.
EMPTY_BATCHES == {NullArray, UndefinedArray, Array(<<>>)}

\* A single product with quantity 1, rating 4.9 and free shipping.
SINGLE_PRODUCT ==
    [asin |-> 1, isOriginal |-> "true", title |-> TITLE_WIRELESS_MOUSE,
     price |-> IntNum(30), rating |-> Num(49, 10), reviewCount |-> IntNum(100),
     shipping |-> Shipping(FALSE, TRUE, Null)]

\* The lists of direct generateFallbackSummary calls: empty, absent, and
\* the ranking of the single product.
SUMMARY_ARGS ==
    EMPTY_BATCHES \cup {Array(scoreProducts(Array(<<SINGLE_PRODUCT>>), NoSentiments))}

NoDirect ==
    [fn |-> "none", title |-> NoTitle, batch |-> UndefinedArray,
     sentiments |-> NoSentiments, threw |-> FALSE, quantity |-> 0,
     list |-> <<>>, text |-> EmptyString]
NoWeights == [ref |-> "none", val |-> EmptyObject]

\* ------------------------------------------------------------------------
\* background.js: the message listener and handleOptimize
\* ------------------------------------------------------------------------

\* The number of optimize messages of a run of the service worker.
MaxRequests == 2
REQUESTS == 1..MaxRequests

\* msg.product: a product with a title, a product without one, no product.
PRODUCT_ARGS == {"titled", "untitled", "absent"}

\* The results object handleOptimize builds for a request.
ResultsOf(r) == [k |-> "results", request |-> r]

\* A message that has not been sent yet.
Unsent ==
    [pc |-> "unsent", product |-> "absent", tab |-> FALSE,
     statuses |-> <<>>, responses |-> <<>>]

NotAsked == [asked |-> FALSE, results |-> Null, isOptimizing |-> FALSE]

InitBackground ==
    /\ lastResults = Null
    /\ isOptimizing = FALSE
    /\ requests = [r \in REQUESTS |-> Unsent]
    /\ cleared = {}
    /\ popup = NotAsked

\* ------------------------------------------------------------------------
\* server.js: the AI proxy route and the users table
\* ------------------------------------------------------------------------

\* The number of POST /api/ai requests of the user, and of usage periods
\* that end while they are handled.
MaxHandlers == 2
MaxPeriods == 1
HANDLERS == 1..MaxHandlers

\* PLAN_QUOTAS, with QUOTA_STARTER=1 in the environment and the default of
\* the pro plan.
QUOTA_STARTER == 1
QUOTA_PRO == 999999
PLAN_QUOTAS == [free |-> 0, starter |-> QUOTA_STARTER, pro |-> QUOTA_PRO]

\* The row /auth/register inserts: plan, usage_count, and whether
\* usage_reset_at lies in the past.
RegisteredUser == [plan |-> "free", usage_count |-> 0, expired |-> FALSE]

\* A request that has not arrived yet; status is the HTTP status of the
\* response, 0 while there is none.
NoRequest == [pc |-> "idle", prompt |-> FALSE, row |-> RegisteredUser, status |-> 0]

InitBackend ==
    /\ user = RegisteredUser
    /\ handlers = [h \in HANDLERS |-> NoRequest]
    /\ served = 0
    /\ period = 0

\* ------------------------------------------------------------------------
\* ai.js: callAI
\* ------------------------------------------------------------------------

\* The defaults of the parameters retries and delay.
DEFAULT_RETRIES == 3
DEFAULT_DELAY == 2000

\* What getAIConfig resolves to: dev mode with and without an API key,
\* production mode, and a mode that is neither.
AI_CONFIGS == {"dev", "devWithoutKey", "production", "other"}

\* What a fetch settles with: the status of a response, or 0 for a fetch
\* that rejects.
FETCH_RESULTS == {200, 429, 503, 500, 0}

NotCalledAI ==
    [pc |-> "idle", config |-> "other", retries |-> 0, delay |-> IntNum(0),
     requests |-> 0, attempts |-> <<>>, waits |-> <<>>, error |-> "none"]

InitAI == aiCall = NotCalledAI

\* ------------------------------------------------------------------------
\* Initial state and the calls
\* ------------------------------------------------------------------------

Init ==
    /\ WEIGHTS_WITH_AI = InitialWeightsWithAI
    /\ WEIGHTS_WITHOUT_AI = InitialWeightsWithoutAI
    /\ products = <<>>
    /\ aiSentiments = NoSentiments
    /\ ranked = NotCalled
    /\ again = NotCalled
    /\ callerWeights = NoWeights
    /\ unitCall = NoCall
    /\ directCall = NoDirect
    /\ results = NoResults
    /\ InitBackground
    /\ InitBackend
    /\ InitAI

\* No batch is being assembled or scored.
Idle == products = <<>> /\ aiSentiments = NoSentiments /\ ~ranked.done

\* The first call has returned, the second has not been made, and
\* handleOptimize has not returned.
Between == ranked.done /\ ~again.done /\ ~results.done

\* The caller of scoreProducts assembles its batch: the original product
\* first, then the listings found (allProducts of handleOptimize).  The
\* results of its earlier direct calls are out of scope by then.
AddProduct(listing) ==
    /\ ~ranked.done
    /\ Len(products) < MaxBatch
    /\ products' = Append(products,
            [asin |-> Len(products) + 1,
             isOriginal |-> IF products = <<>> THEN "true" ELSE "undefined"] @@ listing)
    /\ callerWeights' = NoWeights
    /\ unitCall' = NoCall
    /\ directCall' = NoDirect
    /\ UNCHANGED serviceVars
    /\ UNCHANGED <<WEIGHTS_WITH_AI, WEIGHTS_WITHOUT_AI, aiSentiments, ranked, again, results>>

\* The caller chooses the sentiment map it passes.
SetSentiments(map) ==
    /\ ~ranked.done
    /\ aiSentiments # map
    /\ aiSentiments' = map
    /\ callerWeights' = NoWeights
    /\ unitCall' = NoCall
    /\ directCall' = NoDirect
    /\ UNCHANGED serviceVars
    /\ UNCHANGED <<WEIGHTS_WITH_AI, WEIGHTS_WITHOUT_AI, products, ranked, again, results>>

\* ranked = scoreProducts(products, aiSentiments); products becomes what the
\* call left of the array it was given.
ScoreProducts ==
    /\ ~ranked.done
    /\ ranked' = scoreProductsRun(Array(products), aiSentiments)
    /\ products' = ArgumentAfter(products, ranked'.list)
    /\ callerWeights' = NoWeights
    /\ unitCall' = NoCall
    /\ directCall' = NoDirect
    /\ UNCHANGED serviceVars
    /\ UNCHANGED <<WEIGHTS_WITH_AI, WEIGHTS_WITHOUT_AI, aiSentiments, again, results>>

\* A second call with the same arguments.
ScoreProductsAgain ==
    /\ Between
    /\ again' = scoreProductsRun(Array(products), aiSentiments)
    /\ products' = ArgumentAfter(products, again'.list)
    /\ UNCHANGED serviceVars
    /\ UNCHANGED <<WEIGHTS_WITH_AI, WEIGHTS_WITHOUT_AI, aiSentiments, ranked,
                   callerWeights, unitCall, directCall, results>>

\* The sentiment map is one handleOptimize passes: null when there is no
\* review analysis, else analysis.sentimentScore || 50 of scores that
\* analyzeReviewsBatch clamps to 0..100.
FromReviewAnalyses(sentiments) ==
    \/ sentiments.k = "null"
    \/ /\ sentiments.k = "obj"
       /\ DOMAIN sentiments.m # {}
       /\ \A a \in DOMAIN sentiments.m :
             Gt(sentiments.m[a], IntNum(0)) /\ Le(sentiments.m[a], IntNum(100))

\* The batch is one handleOptimize scores: it was given an original product
\* with a title, and there is a review analysis only if AI is available.
FromHandleOptimize(aiAvailable) ==
    /\ products # <<>>
    /\ ~NoTitleGiven(products[1].title)
    /\ FromReviewAnalyses(aiSentiments)
    /\ aiSentiments.k = "obj" => aiAvailable

\* Step 7 of handleOptimize and its return, for the ranked list of step 6.
HandleOptimizeReturn(aiAvailable, response, malformedPros) ==
    /\ Between
    /\ callerWeights = NoWeights
    /\ FromHandleOptimize(aiAvailable)
    /\ results' = Step7AndReturn(ranked.list, aiSentiments, aiAvailable,
                     writeDecisionReview(ranked.list, aiSentiments, response, malformedPros))
    /\ UNCHANGED serviceVars
    /\ UNCHANGED <<WEIGHTS_WITH_AI, WEIGHTS_WITHOUT_AI, products, aiSentiments, ranked,
                   again, callerWeights, unitCall, directCall>>

\* The caller drops the batch and its results and starts the next run.
NextRun ==
    /\ ranked.done
    /\ products' = <<>>
    /\ aiSentiments' = NoSentiments
    /\ ranked' = NotCalled
    /\ again' = NotCalled
    /\ callerWeights' = NoWeights
    /\ results' = NoResults
    /\ UNCHANGED serviceVars
    /\ UNCHANGED <<WEIGHTS_WITH_AI, WEIGHTS_WITHOUT_AI, unitCall, directCall>>

\* callerWeights = getWeights(hasAI), called directly before a run, or
\* between two scoreProducts calls for the vector these calls use.
GetWeights(hasAI) ==
    /\ Idle \/ (Between /\ hasAI = ranked.hasAI)
    /\ callerWeights' = getWeights(hasAI)
    /\ directCall' = NoDirect
    /\ UNCHANGED serviceVars
    /\ UNCHANGED <<WEIGHTS_WITH_AI, WEIGHTS_WITHOUT_AI, products, aiSentiments, ranked,
                   again, unitCall, results>>

\* The caller writes to the object getWeights gave it: callerWeights[key] = val.
\* The write reaches a module object only if the reference points to it.
CallerWrite(key, val) ==
    /\ callerWeights.ref # "none"
    /\ callerWeights.val[key] # val
    /\ callerWeights' = [callerWeights EXCEPT !.val[key] = val]
    /\ WEIGHTS_WITH_AI' =
          IF callerWeights.ref = "WEIGHTS_WITH_AI"
          THEN [WEIGHTS_WITH_AI EXCEPT ![key] = val] ELSE WEIGHTS_WITH_AI
    /\ WEIGHTS_WITHOUT_AI' =
          IF callerWeights.ref = "WEIGHTS_WITHOUT_AI"
          THEN [WEIGHTS_WITHOUT_AI EXCEPT ![key] = val] ELSE WEIGHTS_WITHOUT_AI
    /\ UNCHANGED serviceVars
    /\ UNCHANGED <<products, aiSentiments, ranked, again, unitCall, directCall, results>>

\* unitCall = calculateUnitPrice(price, quantity), called directly before a run.
CalculateUnitPrice(price, quantity) ==
    /\ Idle
    /\ callerWeights = NoWeights
    /\ unitCall' = [done |-> TRUE, price |-> price, quantity |-> quantity,
                    result |-> calculateUnitPrice(price, quantity)]
    /\ directCall' = NoDirect
    /\ UNCHANGED serviceVars
    /\ UNCHANGED <<WEIGHTS_WITH_AI, WEIGHTS_WITHOUT_AI, products, aiSentiments, ranked,
                   again, callerWeights, results>>

\* A direct call is made before a run, by a caller that holds no results of
\* other direct calls.
NoCallYet ==
    /\ Idle
    /\ callerWeights = NoWeights
    /\ unitCall = NoCall
    /\ directCall = NoDirect

\* The call made, with its arguments and its result.
DirectCall(call) ==
    /\ directCall' = call
    /\ UNCHANGED serviceVars
    /\ UNCHANGED <<WEIGHTS_WITH_AI, WEIGHTS_WITHOUT_AI, products, aiSentiments, ranked,
                   again, callerWeights, unitCall, results>>

\* extractQuantity(title), called directly.
ExtractQuantity ==
    /\ NoCallYet
    /\ \E title \in TITLE_ARGS :
          DirectCall([NoDirect EXCEPT !.fn = "extractQuantity",
                                      !.title = title,
                                      !.threw = extractQuantityThrows(title),
                                      !.quantity = extractQuantity(title)])

\* scoreProducts(batch, map), called directly with an empty or absent batch.
ScoreEmptyBatch ==
    /\ NoCallYet
    /\ \E batch \in EMPTY_BATCHES, map \in SENTIMENT_MAPS :
          DirectCall([NoDirect EXCEPT !.fn = "scoreProducts",
                                      !.batch = batch,
                                      !.sentiments = map,
                                      !.threw = scoreProductsRun(batch, map).threw,
                                      !.list = scoreProductsRun(batch, map).list])

\* generateFallbackSummary(list), called directly.
GenerateFallbackSummary ==
    /\ NoCallYet
    /\ \E list \in SUMMARY_ARGS :
          DirectCall([NoDirect EXCEPT !.fn = "generateFallbackSummary",
                                      !.batch = list,
                                      !.text = generateFallbackSummary(list)])

\* scoreProducts(batch, aiSentiments) for the products of the scored batch in
\* another order, as a search that lists the same products differently
\* gives them to allProducts.
Permuted(items, order) == [i \in DOMAIN items |-> items[order[i]]]

ScorePermuted(order) ==
    /\ ranked.done
    /\ products # <<>>
    /\ directCall = NoDirect
    /\ DirectCall([NoDirect EXCEPT
            !.fn = "scoreProducts",
            !.batch = Array(Permuted(products, order)),
            !.sentiments = aiSentiments,
            !.threw = scoreProductsRun(Array(Permuted(products, order)), aiSentiments).threw,
            !.list = scoreProductsRun(Array(Permuted(products, order)), aiSentiments).list])

Next ==
    \/ \E listing \in LISTINGS : AddProduct(listing)
    \/ \E map \in SENTIMENT_MAPS : SetSentiments(map)
    \/ ScoreProducts
    \/ ScoreProductsAgain
    \/ \E response \in AI_RESPONSES, malformedPros \in BOOLEAN :
          HandleOptimizeReturn(TRUE, response, malformedPros)
    \* without AI no request is made, so there is no response to choose
    \/ HandleOptimizeReturn(FALSE, "throws", FALSE)
    \/ NextRun
    \/ \E hasAI \in BOOLEAN : GetWeights(hasAI)
    \/ CallerWrite("rating", IntNum(1))
    \/ \E price \in PRICE_ARGS, quantity \in QUANTITY_ARGS : CalculateUnitPrice(price, quantity)
    \/ ExtractQuantity
    \/ ScoreEmptyBatch
    \/ GenerateFallbackSummary

Spec == Init /\ [][Next]_vars

\* A listing with a single review, shipped free of charge at a stated cost.
LISTING_C == Raw(TITLE_MOUSE, IntNum(15), IntNum(4), IntNum(1), Shipping(FALSE, TRUE, IntNum(3)))

\* A listing whose shipping struct carries neither a flag nor a cost.
LISTING_D == Raw(TITLE_MOUSE, IntNum(10), IntNum(3), IntNum(10), Shipping(FALSE, FALSE, Undefined))

SCORING_LISTINGS == LISTINGS \cup {LISTING_C, LISTING_D}

\* ------------------------------------------------------------------------
\* The messages of the background service worker
\* ------------------------------------------------------------------------

\* handleOptimize with the status before the test of the product.
handleOptimizeStartStatusFirst(product, tab) ==
    [rejected |-> product # "titled",
     statuses |-> IF tab THEN <<"loading">> ELSE <<>>]

\* handleOptimize up to its first await: it throws for a missing product or
\* title, and else sends the loading status to a tab with a numeric id.
handleOptimizeStart(product, tab) ==
    IF product # "titled"
    THEN [rejected |-> TRUE, statuses |-> <<>>]
    ELSE [rejected |-> FALSE, statuses |-> IF tab THEN <<"loading">> ELSE <<>>]

\* The finally block of handleOptimize: the done status.
handleOptimizeFinally(request) ==
    IF request.tab THEN Append(request.statuses, "done") ELSE request.statuses

\* The next optimize message is the lowest-numbered one not yet sent.
NextRequest(r) == requests[r].pc = "unsent" /\ \A q \in 1..(r - 1) : requests[q].pc # "unsent"

\* An optimize message arrives.  The listener sets the flag and calls
\* handleOptimize; a promise rejected before the first await runs the catch
\* callback before any other message is handled.
Optimize(r, product, tab) ==
    LET start == handleOptimizeStart(product, tab)
    IN  /\ NextRequest(r)
        /\ requests' = [requests EXCEPT ![r] =
              [pc |-> IF start.rejected THEN "answered" ELSE "running",
               product |-> product, tab |-> tab,
               statuses |-> start.statuses,
               responses |-> IF start.rejected THEN <<"error">> ELSE <<>>]]
        /\ isOptimizing' = ~start.rejected
        /\ UNCHANGED <<lastResults, cleared, popup, scoringVars, backendVars, aiVars>>

\* handleOptimize of a running request returns its results or throws: the
\* finally block sends the done status and the then or the catch callback
\* of the listener runs.
OUTCOMES == {"returns", "throws"}

Settle(r, outcome) ==
    /\ requests[r].pc = "running"
    /\ requests' = [requests EXCEPT ![r].pc = "answered",
                                    ![r].statuses = handleOptimizeFinally(requests[r]),
                                    ![r].responses = Append(requests[r].responses,
                                        IF outcome = "returns" THEN "success" ELSE "error")]
    /\ lastResults' = IF outcome = "returns" THEN ResultsOf(r) ELSE lastResults
    /\ isOptimizing' = FALSE
    /\ UNCHANGED <<cleared, popup, scoringVars, backendVars, aiVars>>

\* The popup asks for the results.
GetResults ==
    /\ popup' = [asked |-> TRUE, results |-> lastResults, isOptimizing |-> isOptimizing]
    /\ UNCHANGED <<lastResults, isOptimizing, requests, cleared, scoringVars, backendVars, aiVars>>

\* The retry button of the popup: clearResults.
ClearResults ==
    /\ lastResults' = Null
    /\ isOptimizing' = FALSE
    /\ cleared' = {r \in REQUESTS : requests[r].pc # "unsent"}
    /\ UNCHANGED <<requests, popup, scoringVars, backendVars, aiVars>>

NextBackground ==
    \/ \E r \in REQUESTS, product \in PRODUCT_ARGS, tab \in BOOLEAN : Optimize(r, product, tab)
    \/ \E r \in REQUESTS, outcome \in OUTCOMES : Settle(r, outcome)
    \/ GetResults
    \/ ClearResults

SpecBackground == Init /\ [][NextBackground]_vars

\* Every await of handleOptimize settles, so a running request is answered.
SpecBackgroundFair ==
    SpecBackground /\ \A r \in REQUESTS : WF_vars(\E outcome \in OUTCOMES : Settle(r, outcome))

\* ------------------------------------------------------------------------
\* The requests of the backend server
\* ------------------------------------------------------------------------

\* The Stripe webhook: a completed checkout sets the plan of the user.
Checkout(plan) ==
    /\ user.plan = "free"
    /\ \A h \in HANDLERS : handlers[h].pc = "idle"
    /\ user' = [user EXCEPT !.plan = plan]
    /\ UNCHANGED <<handlers, served, period, scoringVars, backgroundVars, aiVars>>

\* Time passes usage_reset_at, between two requests: every request is
\* served in the period in which it arrived.
PeriodEnds ==
    /\ period < MaxPeriods
    /\ ~user.expired
    /\ \A h \in HANDLERS : handlers[h].pc \in {"idle", "done"}
    /\ period' = period + 1
    /\ user' = [user EXCEPT !.expired = TRUE]
    /\ served' = 0
    /\ UNCHANGED <<handlers, scoringVars, backgroundVars, aiVars>>

\* An authenticated POST /api/ai arrives and the route selects the user.
Request(h, prompt) ==
    /\ handlers[h].pc = "idle"
    /\ \A g \in 1..(h - 1) : handlers[g].pc # "idle"
    /\ handlers' = [handlers EXCEPT ![h].pc = "selecting", ![h].prompt = prompt]
    /\ UNCHANGED <<user, served, period, scoringVars, backgroundVars, aiVars>>

\* The route from the quota check to the fetch: 429 for a used-up quota,
\* 400 for a missing prompt, else the request to the AI service goes out.
CheckQuota(request, row) ==
    IF row.usage_count >= PLAN_QUOTAS[row.plan]
    THEN [request EXCEPT !.pc = "done", !.row = row, !.status = 429]
    ELSE IF ~request.prompt
    THEN [request EXCEPT !.pc = "done", !.row = row, !.status = 400]
    ELSE [request EXCEPT !.pc = "fetching", !.row = row]

\* The select returns the row: 403 for the free plan, a reset of the usage
\* for an expired period, else the quota check.
SelectReturns(h) ==
    /\ handlers[h].pc = "selecting"
    /\ handlers' = [handlers EXCEPT ![h] =
          IF user.plan = "free"
          THEN [handlers[h] EXCEPT !.pc = "done", !.row = user, !.status = 403]
          ELSE IF user.expired
          THEN [handlers[h] EXCEPT !.pc = "resetting", !.row = user]
          ELSE CheckQuota(handlers[h], user)]
    /\ UNCHANGED <<user, served, period, scoringVars, backgroundVars, aiVars>>

\* The update that resets the usage is done: the route goes on with a
\* count of 0 in its copy of the row.
ResetReturns(h) ==
    /\ handlers[h].pc = "resetting"
    /\ user' = [user EXCEPT !.usage_count = 0, !.expired = FALSE]
    /\ handlers' = [handlers EXCEPT ![h] =
          CheckQuota(handlers[h], [handlers[h].row EXCEPT !.usage_count = 0])]
    /\ UNCHANGED <<served, period, scoringVars, backgroundVars, aiVars>>

\* The AI service answers: 502 for a response that is not OK, else the
\* update of the usage goes out.
FetchReturns(h, ok) ==
    /\ handlers[h].pc = "fetching"
    /\ handlers' = [handlers EXCEPT ![h] =
          IF ok THEN [handlers[h] EXCEPT !.pc = "updating"]
          ELSE [handlers[h] EXCEPT !.pc = "done", !.status = 502]]
    /\ served' = IF ok THEN served + 1 ELSE served
    /\ UNCHANGED <<user, period, scoringVars, backgroundVars, aiVars>>

\* update({usage_count: user.usage_count + 1}) with the count the route
\* read at its start, then the response with the text.
UpdateReturns(h) ==
    /\ handlers[h].pc = "updating"
    /\ user' = [user EXCEPT !.usage_count = handlers[h].row.usage_count + 1]
    /\ handlers' = [handlers EXCEPT ![h].pc = "done", ![h].status = 200]
    /\ UNCHANGED <<served, period, scoringVars, backgroundVars, aiVars>>

NextBackend ==
    \/ \E plan \in {"starter", "pro"} : Checkout(plan)
    \/ PeriodEnds
    \/ \E h \in HANDLERS, prompt \in BOOLEAN : Request(h, prompt)
    \/ \E h \in HANDLERS : SelectReturns(h)
    \/ \E h \in HANDLERS : ResetReturns(h)
    \/ \E h \in HANDLERS, ok \in BOOLEAN : FetchReturns(h, ok)
    \/ \E h \in HANDLERS : UpdateReturns(h)

SpecBackend == Init /\ [][NextBackend]_vars

\* ------------------------------------------------------------------------
\* The steps of a callAI call
\* ------------------------------------------------------------------------

\* callAI(prompt, options): the call with the default retries and delay
\* awaits getAIConfig.
CallAI ==
    /\ aiCall.pc = "idle"
    /\ aiCall' = [NotCalledAI EXCEPT !.pc = "config", !.retries = DEFAULT_RETRIES,
                                      !.delay = IntNum(DEFAULT_DELAY)]
    /\ UNCHANGED <<scoringVars, backgroundVars, backendVars>>

\* The call fails: the promise rejects with the message.
Fails(call, message) == [call EXCEPT !.pc = "done", !.error = message]

\* getAIConfig resolves: dev mode without a key and an unknown mode fail
\* without a request, else the request goes out.
GetAIConfigResolves(config) ==
    /\ aiCall.pc = "config"
    /\ aiCall' =
          CASE config = "devWithoutKey" ->
                 Fails([aiCall EXCEPT !.config = config],
                       "Please enter a valid Gemini API key in Settings.")
            [] config = "other" ->
                 Fails([aiCall EXCEPT !.config = config], "Unknown AI mode")
            [] OTHER -> [aiCall EXCEPT !.pc = "fetching", !.config = config,
                                       !.requests = aiCall.requests + 1]
    /\ UNCHANGED <<scoringVars, backgroundVars, backendVars>>

\* The retry test that allows a retry with no retries left.
CanRetryOnceMore(retries) == retries >= 0

\* retries > 0
CanRetry(retries) == retries > 0

\* The statuses a mode takes for a rate limit.
RateLimited(config, status) ==
    IF config = "dev" THEN status \in {429, 503} ELSE status = 429

\* The fetch settles.  A rate-limit status with retries left starts the
\* timer, without retries left it fails with the rate-limit message; any
\* other status that is not OK, and a rejected fetch, fail at once; an OK
\* response returns the text.
FetchSettles(status) ==
    LET call == [aiCall EXCEPT !.attempts = Append(aiCall.attempts,
                                   [config |-> aiCall.config, status |-> status])]
    IN  /\ aiCall.pc = "fetching"
        /\ aiCall' =
              CASE status = 0 -> Fails(call, "Failed to fetch")
                [] status # 0 /\ RateLimited(aiCall.config, status) ->
                     IF CanRetry(aiCall.retries)
                     THEN [call EXCEPT !.pc = "waiting"]
                     ELSE Fails(call, "Rate limit exceeded. Please wait a moment and try again.")
                [] status # 0 /\ ~RateLimited(aiCall.config, status) /\ status # 200 ->
                     Fails(call, IF aiCall.config = "dev" THEN "Gemini API error"
                                 ELSE "Backend error")
                [] OTHER -> [call EXCEPT !.pc = "done"]
        /\ UNCHANGED <<scoringVars, backgroundVars, backendVars>>

\* The timer of the delay fires: callAI(prompt, options, retries - 1,
\* delay * 1.5), which awaits getAIConfig again.
DelayElapses ==
    /\ aiCall.pc = "waiting"
    /\ aiCall' = [aiCall EXCEPT !.pc = "config",
                                 !.waits = Append(aiCall.waits, aiCall.delay),
                                 !.retries = aiCall.retries - 1,
                                 !.delay = Mul(aiCall.delay, Num(3, 2))]
    /\ UNCHANGED <<scoringVars, backgroundVars, backendVars>>

\* The caller is done with the result and the next call can be made.
CallReturns ==
    /\ aiCall.pc = "done"
    /\ aiCall' = NotCalledAI
    /\ UNCHANGED <<scoringVars, backgroundVars, backendVars>>

NextAI ==
    \/ CallAI
    \/ \E config \in AI_CONFIGS : GetAIConfigResolves(config)
    \/ \E status \in FETCH_RESULTS : FetchSettles(status)
    \/ DelayElapses
    \/ CallReturns

SpecAI == Init /\ [][NextAI]_vars

\* The storage read, the fetch and the timer of a call settle.
SpecAIFair ==
    /\ SpecAI
    /\ WF_vars(\E config \in AI_CONFIGS : GetAIConfigResolves(config))
    /\ WF_vars(\E status \in FETCH_RESULTS : FetchSettles(status))
    /\ WF_vars(DelayElapses)

\* The listings of the batches that are scored in two orders; LISTING_B and
\* LISTING_D score alike.
ORDER_LISTINGS == {LISTING_A, LISTING_B, LISTING_D}

NextOrder ==
    \/ \E listing \in ORDER_LISTINGS : AddProduct(listing)
    \/ \E map \in SENTIMENT_MAPS : SetSentiments(map)
    \/ ScoreProducts
    \/ \E order \in Permutations(DOMAIN products) : ScorePermuted(order)
    \/ NextRun

SpecOrder == Init /\ [][NextOrder]_vars

\* The runs of a caller that only assembles batches and has them scored.
NextScoring ==
    \/ \E listing \in SCORING_LISTINGS : AddProduct(listing)
    \/ \E map \in SENTIMENT_MAPS : SetSentiments(map)
    \/ ScoreProducts
    \/ NextRun

SpecScoring == Init /\ [][NextScoring]_vars

\* ------------------------------------------------------------------------
\* Properties
\* ------------------------------------------------------------------------

\* The list the latest scoreProducts call returned, and its indices.
Out == ranked.list
OutIdx == DOMAIN ranked.list

\* A non-empty batch has been scored.
Scored == ranked.done /\ products # <<>>

\* The caller numbers the products of a batch by position (AddProduct), so
\* the asin of a returned product is its index in the input.
InputIndex(r) == r.asin

\* The weighted sum of a returned product, before clamping and rounding.
RawSum(r) == WeightedSum(r.breakdown, ranked.weights, 1, IntNum(0))

\* C1: every element returned by scoreProducts has a score that is an
\* integer in [0,100], whatever the sentiment values, ratings and missing
\* fields of the batch; out-of-range weighted sums are clamped, never NaN.
C1_ScoreIsIntegerInRange ==
    ranked.done =>
        \A i \in OutIdx :
            /\ IsInteger(Out[i].score)
            /\ Out[i].score.n >= 0
            /\ Out[i].score.n <= 100

\* A batch scored with a weighted sum above 100 and one below 0, for
\* products that lack a shipping struct and a review count.
C1_Witness ==
    /\ Scored
    /\ \E i \in OutIdx : /\ Gt(RawSum(Out[i]), IntNum(100))
                         /\ Out[i].score = IntNum(100)
                         /\ Out[i].shipping = NoShipping
    /\ \E i \in OutIdx : /\ Lt(RawSum(Out[i]), IntNum(0))
                         /\ Out[i].score = IntNum(0)
                         /\ Out[i].reviewCount = Null

\* C2: for a non-empty batch exactly one returned element has isBestValue
\* true; it is the first element, it has the maximum score, and among the
\* products with that score it is the first of the input.
C2_ExactlyOneBestValue ==
    Scored =>
        /\ {i \in OutIdx : Out[i].isBestValue = "true"} = {1}
        /\ \A i \in OutIdx : Le(Out[i].score, Out[1].score)
        /\ \A i \in OutIdx :
              Out[i].score = Out[1].score => InputIndex(Out[1]) <= InputIndex(Out[i])

\* Two products share the top score and the winner is not the first input.
C2_Witness ==
    /\ Scored
    /\ Len(Out) >= 3
    /\ Out[1].score = Out[2].score
    /\ InputIndex(Out[1]) # 1
    /\ Out[1].isBestValue = "true"

\* C3: the returned list is sorted by score, highest first, and the sort is
\* stable: products with equal scores keep their input order.
C3_SortedStable ==
    ranked.done =>
        \A i, j \in OutIdx :
            i < j =>
                /\ Ge(Out[i].score, Out[j].score)
                /\ Out[i].score = Out[j].score => InputIndex(Out[i]) < InputIndex(Out[j])

\* The sort moved a product forward past others, and kept a tie in order.
C3_Witness ==
    /\ Scored
    /\ \E i, j \in OutIdx : i < j /\ InputIndex(Out[i]) > InputIndex(Out[j])
    /\ \E i, j \in OutIdx : i < j /\ Out[i].score = Out[j].score
    /\ \E i, j \in OutIdx : Out[i].score # Out[j].score

RAW_FIELDS == {"asin", "title", "price", "rating", "reviewCount", "shipping", "isOriginal"}

Originals(list) == {i \in DOMAIN list : list[i].isOriginal = "true"}

\* C4: the output has the length of the input and is a permutation of it;
\* each product keeps its raw fields, so one original in gives one original out.
C4_PermutationOfInput ==
    Scored =>
        /\ Len(Out) = Len(products)
        /\ {InputIndex(Out[i]) : i \in OutIdx} = DOMAIN products
        /\ \A i \in OutIdx :
              \A f \in RAW_FIELDS : Out[i][f] = products[InputIndex(Out[i])][f]
        /\ Cardinality(Originals(products)) = 1 => Cardinality(Originals(Out)) = 1

\* A reordered batch of three, one of them without a price.
C4_Witness ==
    /\ Scored
    /\ Len(Out) = 3
    /\ InputIndex(Out[1]) = 3
    /\ \E i \in OutIdx : Out[i].price = Undefined
    /\ Originals(Out) = {2}

\* C5: the breakdown of every returned element has exactly the six dimension
\* keys; without a sentiment map the sentiment weight is 0 and the sentiment
\* entry is present with value 0.
C5_BreakdownHasSixKeys ==
    ranked.done =>
        \A i \in OutIdx :
            /\ DOMAIN Out[i].breakdown = DIMENSIONS
            /\ Cardinality(DOMAIN Out[i].breakdown) = 6
            /\ (aiSentiments.k = "null" \/ DOMAIN aiSentiments.m = {}) =>
                  /\ ranked.weights["reviewSentiment"] = IntNum(0)
                  /\ Out[i].breakdown["reviewSentiment"] = IntNum(0)

\* A batch scored without a sentiment map, and one scored with an empty map.
C5_Witness ==
    /\ Scored
    /\ Len(Out) >= 2
    /\ aiSentiments = Sentiments(EmptyObject)
    /\ \A i \in OutIdx : Out[i].breakdown["reviewSentiment"] = IntNum(0)

\* C6: a second scoreProducts call with the same arguments returns the same
\* list (scores, breakdowns, order), whatever calls to getWeights,
\* calculateUnitPrice and scoreProducts came before or between the two calls.
C6_Deterministic ==
    again.done => again = ranked

\* Between the two calls the caller took a weight object and wrote to it.
C6_Witness ==
    /\ Scored
    /\ again.done
    /\ Len(Out) >= 2
    /\ ranked.hasAI
    /\ callerWeights.ref # "none"
    /\ callerWeights.val["rating"] = IntNum(1)

\* The sentiment sub-score the claim states for a product.
ExpectedSentiment(r) ==
    IF aiSentiments.k = "obj" /\ r.asin \in DOMAIN aiSentiments.m
    THEN aiSentiments.m[r.asin]
    ELSE IntNum(0)

\* C7: one weight vector per batch: the with-sentiment vector iff the map is
\* non-null and has a key, also when it covers only some or none of the
\* products; the sentiment sub-score is the map's value, 0 without an entry,
\* and 0 for every product when the map is null or empty.
C7_WeightsChosenPerBatch ==
    Scored =>
        LET nonEmpty == aiSentiments.k = "obj" /\ DOMAIN aiSentiments.m # {}
            vector == IF nonEmpty THEN InitialWeightsWithAI ELSE InitialWeightsWithoutAI
        IN  /\ ranked.hasAI = nonEmpty
            /\ ranked.weights = vector
            /\ \A i \in OutIdx :
                  /\ Out[i].score = Clamp(WeightedSum(Out[i].breakdown, vector, 1, IntNum(0)))
                  /\ Out[i].breakdown["reviewSentiment"] = ExpectedSentiment(Out[i])
                  /\ ~nonEmpty => Out[i].breakdown["reviewSentiment"] = IntNum(0)

\* A map that covers one product of the batch and not another.
C7_Witness ==
    /\ Scored
    /\ ranked.hasAI
    /\ \E i \in OutIdx : Out[i].asin \in DOMAIN aiSentiments.m
                         /\ Truthy(Out[i].breakdown["reviewSentiment"])
    /\ \E i \in OutIdx : Out[i].asin \notin DOMAIN aiSentiments.m

\* The sum of the weights of a vector.
RECURSIVE SumWeights(_, _)
SumWeights(weights, i) ==
    IF i > Len(WEIGHT_KEYS) THEN IntNum(0)
    ELSE Add(weights[WEIGHT_KEYS[i]], SumWeights(weights, i + 1))

\* The two vectors as C8 states them.
CLAIMED_WITHOUT_AI ==
    [unitPrice |-> Num(35, 100), rating |-> Num(25, 100), reviewSentiment |-> IntNum(0),
     reviewCount |-> Num(15, 100), shipping |-> Num(15, 100), price |-> Num(10, 100)]

CLAIMED_WITH_AI ==
    [unitPrice |-> Num(30, 100), rating |-> Num(20, 100), reviewSentiment |-> Num(15, 100),
     reviewCount |-> Num(10, 100), shipping |-> Num(15, 100), price |-> Num(10, 100)]

\* C8: in every state getWeights(false) is the vector .35/.25/0/.15/.15/.10
\* and getWeights(true) the vector .30/.20/.15/.10/.15/.10; each sums to 1
\* and has no negative weight.
C8_WeightVectors ==
    LET without == getWeights(FALSE).val
        with == getWeights(TRUE).val
    IN  /\ DOMAIN without = DIMENSIONS /\ DOMAIN with = DIMENSIONS
        /\ \A key \in DIMENSIONS : without[key] = CLAIMED_WITHOUT_AI[key]
        /\ SumWeights(without, 1) = IntNum(1)
        /\ \A key \in DIMENSIONS : with[key] = CLAIMED_WITH_AI[key]
        /\ SumWeights(with, 1) = IntNum(1)
        /\ \A key \in DIMENSIONS : Ge(without[key], IntNum(0)) /\ Ge(with[key], IntNum(0))

\* A caller has taken the without-sentiment vector and changed its copy.
C8_Witness ==
    /\ callerWeights.ref # "none"
    /\ callerWeights.val["reviewSentiment"] = IntNum(0)
    /\ callerWeights.val["rating"] = IntNum(1)

\* The price is absent (null, undefined or not a number), zero or negative.
NoUsablePrice(price) ==
    \/ price.k \in {"null", "undef", "nan"}
    \/ price = IntNum(0)
    \/ Lt(price, IntNum(0))

\* C9: calculateUnitPrice returns the sentinel (Infinity) for an absent, zero
\* or negative price and price / max(quantity, 1) otherwise, so a quantity
\* of 0 or less counts as 1; (24, 6) gives 4, (0, 3) and (null, 1) the sentinel.
C9_UnitPrice ==
    unitCall.done =>
        /\ NoUsablePrice(unitCall.price) => unitCall.result = Infinity
        /\ ~NoUsablePrice(unitCall.price) =>
              unitCall.result =
                 Div(unitCall.price,
                     IF Lt(unitCall.quantity, IntNum(1)) THEN IntNum(1)
                     ELSE unitCall.quantity)
        /\ unitCall.price = IntNum(24) /\ unitCall.quantity = IntNum(6) =>
              unitCall.result = IntNum(4)
        /\ unitCall.price = IntNum(0) /\ unitCall.quantity = IntNum(3) =>
              unitCall.result = Infinity
        /\ unitCall.price = Null /\ unitCall.quantity = IntNum(1) =>
              unitCall.result = Infinity

\* A positive price divided by a quantity of 0, which counts as 1.
C9_Witness ==
    /\ unitCall.done
    /\ unitCall.price = IntNum(24)
    /\ unitCall.quantity = IntNum(0)
    /\ unitCall.result = IntNum(24)

\* C10: a returned unitPrice is a positive finite number or the sentinel;
\* the sentinel is never the maximum used for normalization; a product with
\* the sentinel has unit-price and price sub-scores 0; no sub-score and no
\* score is NaN, also when every product has the sentinel.
C10_SentinelUnitPrice ==
    Scored =>
        /\ isFinite(ranked.maxUnitPrice)
        /\ isFinite(ranked.maxPrice)
        /\ \A i \in OutIdx :
              /\ \/ Out[i].unitPrice = Infinity
                 \/ isFinite(Out[i].unitPrice) /\ Gt(Out[i].unitPrice, IntNum(0))
              /\ Out[i].unitPrice = Infinity =>
                    /\ Out[i].breakdown["unitPrice"] = IntNum(0)
                    /\ Out[i].breakdown["price"] = IntNum(0)
              /\ Out[i].unitPrice # Infinity => Le(Out[i].unitPrice, ranked.maxUnitPrice)
              /\ \A key \in DOMAIN Out[i].breakdown : ~IsNaN(Out[i].breakdown[key])
              /\ ~IsNaN(Out[i].score)

\* Every product of a batch of two or more has the sentinel unit price.
C10_Witness ==
    /\ Scored
    /\ Len(Out) >= 2
    /\ \A i \in OutIdx : Out[i].unitPrice = Infinity
    /\ ranked.maxUnitPrice = IntNum(1)

\* The field is missing: undefined or null.
Missing(x) == x.k \in {"null", "undef"}

\* The review count the claim gives a product: 0 for a missing one.
CountOrZero(x) == IF Missing(x) THEN IntNum(0) ELSE x

\* C11: scoreProducts does not raise on products that lack price, rating,
\* reviewCount or shipping: a missing price gives the sentinel unit price and
\* price sub-score 0, a missing rating sub-score 0, a missing reviewCount
\* counts as 0 reviews, and a missing shipping struct gives sub-score 25.
C11_MissingFieldsDefaulted ==
    Scored =>
        /\ ~ranked.threw
        /\ Len(Out) = Len(products)
        /\ ranked.maxReviews =
              MathMax([i \in DOMAIN products |-> CountOrZero(products[i].reviewCount)],
                      IntNum(1))
        /\ \A i \in OutIdx :
              /\ Missing(Out[i].price) =>
                    /\ Out[i].unitPrice = Infinity
                    /\ Out[i].breakdown["price"] = IntNum(0)
              /\ Missing(Out[i].rating) => Out[i].breakdown["rating"] = IntNum(0)
              /\ Missing(Out[i].reviewCount) =>
                    Out[i].breakdown["reviewCount"] =
                       IF Gt(ranked.maxReviews, IntNum(1)) THEN IntNum(0) ELSE IntNum(50)
              /\ Absent(Out[i].shipping) => Out[i].breakdown["shipping"] = IntNum(25)

\* A batch with a product that lacks all four fields, one that lacks only
\* its shipping struct, and a review count above 1 to normalize by.
C11_Witness ==
    /\ Scored
    /\ Gt(ranked.maxReviews, IntNum(1))
    /\ \E i \in OutIdx : /\ Out[i].price = Undefined
                         /\ Out[i].rating = Undefined
                         /\ Out[i].reviewCount = Undefined
                         /\ Out[i].shipping = NoShipping
    /\ \E i \in OutIdx : /\ Out[i].shipping = NoShipping
                         /\ ~Missing(Out[i].price)

\* C12: an empty or absent batch is no error: scoreProducts returns the empty
\* list for [], null and undefined, with or without a sentiment map, and
\* generateFallbackSummary of an empty or absent list is the empty string.
C12_EmptyBatchIsNoError ==
    /\ directCall.fn = "scoreProducts" =>
          ~directCall.threw /\ directCall.list = <<>>
    /\ directCall.fn = "generateFallbackSummary" /\ directCall.batch \in EMPTY_BATCHES =>
          directCall.text = EmptyString
    /\ ranked.done /\ ranked.input = <<>> /\ products = <<>> =>
          ~ranked.threw /\ Out = <<>>

\* scoreProducts was called with null and a sentiment map that has keys.
C12_Witness ==
    /\ directCall.fn = "scoreProducts"
    /\ directCall.batch = NullArray
    /\ HasAI(directCall.sentiments)
    /\ directCall.list = <<>>

\* The range of a quantity signal: 0 < n < 10000.
QUANTITY_RANGE == 1..9999

\* The patterns that match the title, by their index in QUANTITY_PATTERNS.
Matching(title) == {k \in 1..5 : Match(k, title.s).ok}

\* The number the leftmost match of pattern k captures.
Captured(k, title) == ParseInt(Match(k, title.s).group)

\* C13: extractQuantity does not throw on any title, the empty and the absent
\* one included, and returns an integer q with 1 <= q < 10000; it returns 1
\* for an empty or absent title and when no pattern matches; "Wireless Mouse"
\* gives 1, "Pack of 6 Towels" 6, "Vitamin C 500mg, 120 Capsules" 120.
C13_QuantityInRange ==
    /\ directCall.fn = "extractQuantity" =>
          /\ ~directCall.threw
          /\ directCall.quantity \in QUANTITY_RANGE
          /\ NoTitleGiven(directCall.title) => directCall.quantity = 1
          /\ ~NoTitleGiven(directCall.title) /\ Matching(directCall.title) = {} =>
                directCall.quantity = 1
          /\ directCall.title = TITLE_WIRELESS_MOUSE => directCall.quantity = 1
          /\ directCall.title = TITLE_PACK_OF_6_TOWELS => directCall.quantity = 6
          /\ directCall.title = TITLE_VITAMIN_C => directCall.quantity = 120
    /\ ranked.done =>
          \A i \in OutIdx : IsInteger(Out[i].quantity) /\ Out[i].quantity.n \in QUANTITY_RANGE

\* The call on "Vitamin C 500mg, 120 Capsules", whose first number has no unit.
C13_Witness ==
    /\ directCall.fn = "extractQuantity"
    /\ directCall.title = TITLE_VITAMIN_C
    /\ directCall.quantity = 120

\* A direct extractQuantity call on a title that some pattern matches.
QuantityCallWithMatch ==
    /\ directCall.fn = "extractQuantity"
    /\ ~NoTitleGiven(directCall.title)
    /\ Matching(directCall.title) # {}

\* The earliest pattern of the list that matches the title.
FirstMatching(title) == Least(Matching(title))

\* The patterns whose leftmost match captures a number in range.
MatchingInRange(title) == {k \in Matching(title) : Captured(k, title) \in QUANTITY_RANGE}

\* C14 as stated: the earliest pattern that matches decides the result, its
\* number if that is in range and 1 if not, whatever later patterns match.
C14_FirstMatchDecides ==
    QuantityCallWithMatch =>
        directCall.quantity =
            IF Captured(FirstMatching(directCall.title), directCall.title) \in QUANTITY_RANGE
            THEN Captured(FirstMatching(directCall.title), directCall.title)
            ELSE 1

\* C14 (amended): pattern order is the tie-break among the patterns whose
\* match has a number in range: the earliest of them decides the result,
\* even if a later pattern also matches; a pattern whose number is out of
\* range is passed over.
C14_FirstInRangeMatchDecides ==
    QuantityCallWithMatch /\ MatchingInRange(directCall.title) # {} =>
        directCall.quantity =
            Captured(Least(MatchingInRange(directCall.title)), directCall.title)

\* Two patterns match with different numbers in range; the earlier one wins.
C14_Witness ==
    /\ QuantityCallWithMatch
    /\ {1, 2} \subseteq MatchingInRange(directCall.title)
    /\ Captured(1, directCall.title) # Captured(2, directCall.title)
    /\ directCall.quantity = Captured(1, directCall.title)

SentenceRank(kind) ==
    CASE kind = "winner" -> 1
      [] kind = "unit" -> 2
      [] kind = "shipping" -> 3
      [] kind = "rating" -> 4
      [] kind = "runner" -> 5
      [] OTHER -> 6

Has(text, kind) == \E i \in DOMAIN text.s : text.s[i].s = kind

\* What C16 says of the summary text of a non-empty ranked list.
SummaryAsClaimed(text, list) ==
    /\ text.s # <<>>
    /\ text.s[1].s = "winner"
    /\ text.s[1].title = list[1].title
    /\ text.s[1].a = list[1].score
    /\ \A i, j \in DOMAIN text.s :
          i < j => SentenceRank(text.s[i].s) < SentenceRank(text.s[j].s)
    /\ \A i \in DOMAIN text.s : SentenceRank(text.s[i].s) <= 5
    /\ Has(text, "unit") <=> Gt(list[1].quantity, IntNum(1))
    /\ Has(text, "shipping") <=> list[1].breakdown["shipping"] = IntNum(100)
    /\ Has(text, "rating") <=> Ge(list[1].rating, Num(45, 10))
    /\ Has(text, "runner") <=> Len(list) >= 2
    /\ \A i \in DOMAIN text.s :
          text.s[i].s = "runner" =>
              text.s[i].title = list[2].title /\ text.s[i].a = list[2].score
    /\ Len(list) > 2 => text = generateFallbackSummary(Array(SubSeq(list, 1, 2)))

\* C16: the fallback summary of a non-empty ranked list depends on its first
\* two entries only and has, in this order, the winner sentence always, the
\* unit-price sentence iff the winner's quantity > 1, the shipping sentence
\* iff its shipping sub-score is 100, the rating sentence iff its rating is
\* at least 4.5, the runner-up sentence iff there are two entries; for the
\* single product with quantity 1, rating 4.9 and free shipping it names
\* title, score and shipping and has no runner-up sentence.
C16_SummaryTemplate ==
    /\ results.done /\ ~results.failed /\ results.fallback =>
          SummaryAsClaimed(results.decisionReview, Out)
    /\ directCall.fn = "generateFallbackSummary" /\ directCall.batch \notin EMPTY_BATCHES =>
          /\ SummaryAsClaimed(directCall.text, directCall.batch.items)
          /\ directCall.batch.items[1].title = TITLE_WIRELESS_MOUSE
          /\ Has(directCall.text, "shipping")
          /\ ~Has(directCall.text, "runner")
          /\ ~Has(directCall.text, "unit")

\* A list of three whose winner has a quantity above 1, summarized by the
\* fallback: winner, unit price and runner-up.
C16_Witness ==
    /\ results.done
    /\ results.fallback
    /\ Len(Out) = 3
    /\ Len(results.decisionReview.s) = 3
    /\ Has(results.decisionReview, "unit")
    /\ Has(results.decisionReview, "runner")
    /\ Out[2].title # Out[3].title

\* C17: a run that reaches scoring returns the narrative as its summary when
\* the narrative is a non-empty string, without calling the fallback
\* summarizer, and the fallback summary of the ranked list when there is no
\* narrative or an empty one (AI unavailable, failed or without a text).
C17_NarrativeOrFallback ==
    results.done /\ ~results.failed =>
        /\ ~EmptyText(results.narrative) =>
              /\ results.decisionReview = results.narrative
              /\ ~results.fallback
        /\ EmptyText(results.narrative) =>
              /\ results.decisionReview = generateFallbackSummary(Array(Out))
              /\ results.fallback
        /\ ~results.aiUsed => EmptyText(results.narrative)

\* AI was used for the sentiments and wrote the narrative that is returned.
C17_Witness ==
    /\ results.done
    /\ ~results.failed
    /\ ranked.hasAI
    /\ results.aiUsed
    /\ results.decisionReview = Narrative
    /\ ~results.fallback

\* The fields scoreProducts writes on the records of its result.
WRITTEN_FIELDS == {"fresh", "quantity", "unitPrice", "score", "breakdown", "isBestValue"}

\* What C18 says of a finished call and the arguments it was given.
ArgumentsKept(run) ==
    /\ products = run.input
    /\ aiSentiments = run.sentiments
    /\ \A i \in DOMAIN products : DOMAIN products[i] \cap WRITTEN_FIELDS = {}
    /\ \A j \in DOMAIN run.list : run.list[j].fresh

\* C18: scoreProducts leaves its arguments as they were: the input array
\* has the same elements in the same order, no input record has gained or
\* changed a field, the sentiment map is unchanged, and the records of the
\* result are newly allocated.
C18_ArgumentsUnchanged ==
    /\ ranked.done /\ ~ranked.threw => ArgumentsKept(ranked)
    /\ again.done /\ ~again.threw => ArgumentsKept(again)

\* Two calls on a batch of three that the sort reordered.
C18_Witness ==
    /\ Scored
    /\ again.done
    /\ Len(Out) = 3
    /\ InputIndex(Out[1]) = 3
    /\ aiSentiments.k = "obj"

\* C19 as stated: every returned element but the first has isBestValue false.
C19_OthersAreFalse ==
    Scored => \A i \in OutIdx : i > 1 => Out[i].isBestValue = "false"

\* C19 (amended): every element scoreProducts returns but the first has no
\* isBestValue (undefined, which is falsy); in the results buildResults makes
\* of the list these elements have isBestValue false and the first has true.
C19_OthersAreUndefinedThenFalse ==
    /\ Scored => \A i \in OutIdx : i > 1 => Out[i].isBestValue = "undefined"
    /\ results.done /\ ~results.failed =>
          /\ Len(results.products) = Len(Out)
          /\ \A i \in DOMAIN results.products :
                results.products[i].isBestValue = IF i = 1 THEN "true" ELSE "false"

\* handleOptimize returned the results of a batch of three.
C19_Witness ==
    /\ results.done
    /\ ~results.failed
    /\ Len(results.products) = 3
    /\ Out[2].isBestValue = "undefined"
    /\ results.products[2].isBestValue = "false"

\* The batch [A, B] of the example, scored without a sentiment map.
BatchAB ==
    /\ Scored
    /\ Len(products) = 2
    /\ \A f \in DOMAIN LISTING_A : products[1][f] = LISTING_A[f]
    /\ \A f \in DOMAIN LISTING_B : products[2][f] = LISTING_B[f]
    /\ aiSentiments = NoSentiments

\* The without-sentiment weighted sum of a breakdown, rounded.
RoundedSum(b) ==
    MathRound(Add(Add(Add(Add(Mul(Num(35, 100), b["unitPrice"]),
                              Mul(Num(25, 100), b["rating"])),
                          Mul(Num(15, 100), b["reviewCount"])),
                      Mul(Num(15, 100), b["shipping"])),
                  Mul(Num(10, 100), b["price"])))

\* C20: for the batch [A, B] without a sentiment map, B has the higher
\* unit-price and price sub-scores, A the higher rating, review-count and
\* shipping sub-scores; each score is the rounded without-sentiment weighted
\* sum (A = 55, B = 46); A comes first and is tagged best value.
C20_ExampleAB ==
    BatchAB =>
        /\ Out[1].asin = 1 /\ Out[2].asin = 2
        /\ Gt(Out[2].breakdown["unitPrice"], Out[1].breakdown["unitPrice"])
        /\ Gt(Out[2].breakdown["price"], Out[1].breakdown["price"])
        /\ Gt(Out[1].breakdown["rating"], Out[2].breakdown["rating"])
        /\ Gt(Out[1].breakdown["reviewCount"], Out[2].breakdown["reviewCount"])
        /\ Gt(Out[1].breakdown["shipping"], Out[2].breakdown["shipping"])
        /\ Out[1].score = RoundedSum(Out[1].breakdown)
        /\ Out[2].score = RoundedSum(Out[2].breakdown)
        /\ Out[1].score = IntNum(55)
        /\ Out[2].score = IntNum(46)
        /\ Out[1].isBestValue = "true"
        /\ Out[2].isBestValue # "true"

\* The batch [A, B] has been scored: A's weighted sum is 55, B's 46.25.
C20_Witness ==
    /\ BatchAB
    /\ RawSum(Out[1]) = IntNum(55)
    /\ RawSum(Out[2]) = Num(185, 4)

\* n is the integer nearest to the rational x, halves going up.
IsNearest(x, n) == 2 * n * x.d - x.d <= 2 * x.n /\ 2 * x.n < 2 * n * x.d + x.d

\* The integer n limited to 0..100, and the rational x limited to [0,100].
LimitInt(n) == IF n < 0 THEN 0 ELSE IF n > 100 THEN 100 ELSE n
Limit(x) == IF x.n < 0 THEN IntNum(0) ELSE IF x.n > 100 * x.d THEN IntNum(100) ELSE x

\* The integer the rational x rounds to.
NearestInt(x) == (2 * x.n + x.d) \div (2 * x.d)

\* score is sum limited and then rounded, and also sum rounded and then limited.
ScoreAsClaimed(sum, score) ==
    /\ sum.k = "num"
    /\ IsInteger(score)
    /\ IsNearest(Limit(sum), score.n)
    /\ IsNearest(sum, NearestInt(sum))
    /\ score.n = LimitInt(NearestInt(sum))

\* C21: the score of every returned product is its weighted sum over the six
\* dimensions, limited to [0,100] and then rounded to the nearest integer, and
\* rounding first and limiting afterwards gives the same score.
C21_RoundAndClampCommute ==
    ranked.done => \A i \in OutIdx : ScoreAsClaimed(RawSum(Out[i]), Out[i].score)

\* A batch with a sum above 100, a sum below 0 and a sum strictly between two
\* integers, none of the three an integer itself.
C21_Witness ==
    /\ Scored
    /\ \E i \in OutIdx : Gt(RawSum(Out[i]), IntNum(100)) /\ ~IsInteger(RawSum(Out[i]))
    /\ \E i \in OutIdx : Lt(RawSum(Out[i]), IntNum(0)) /\ ~IsInteger(RawSum(Out[i]))
    /\ \E i \in OutIdx : /\ Gt(RawSum(Out[i]), IntNum(0))
                         /\ Lt(RawSum(Out[i]), IntNum(100))
                         /\ ~IsInteger(RawSum(Out[i]))

\* The largest of a set of numbers and 1.
LargestOrOne(values) ==
    CHOOSE m \in values \cup {IntNum(1)} : \A v \in values \cup {IntNum(1)} : Le(v, m)

\* (1 - x / M) * 100
LowerIsBetter(x, M) == Mul(Sub(IntNum(1), Div(x, M)), IntNum(100))

\* A finite unit price, and a positive finite price.
FiniteNumber(x) == x.k = "num"
PositivePrice(x) == x.k = "num" /\ x.n > 0

FiniteUnitPrices == {Out[i].unitPrice : i \in {j \in OutIdx : FiniteNumber(Out[j].unitPrice)}}
PositivePrices == {Out[i].price : i \in {j \in OutIdx : PositivePrice(Out[j].price)}}

\* The sub-score value of C22 for x among the usable values of the batch.
PriceSubScore(x, usable, values) ==
    IF usable THEN LowerIsBetter(x, LargestOrOne(values)) ELSE IntNum(0)

InZeroToHundred(x) == x.k = "num" /\ x.n >= 0 /\ x.n <= 100 * x.d

\* What C22 says of the sub-score sub of a product with value x.
PriceSubScoreAsClaimed(sub, x, usable, values) ==
    /\ sub = PriceSubScore(x, usable, values)
    /\ InZeroToHundred(sub)
    /\ (usable /\ x = LargestOrOne(values)) => sub = IntNum(0)

\* C22: each price-based sub-score is (1 - x / M) * 100 with M the largest
\* usable value of the batch floored at 1, and 0 for a sentinel unit price or
\* an unusable price; it lies in [0,100], is 0 for the product that holds a
\* batch maximum of at least 1, and is never lower for a lower price.
C22_PriceSubScores ==
    ranked.done =>
        /\ \A i \in OutIdx :
              /\ PriceSubScoreAsClaimed(Out[i].breakdown["unitPrice"], Out[i].unitPrice,
                                        FiniteNumber(Out[i].unitPrice), FiniteUnitPrices)
              /\ PriceSubScoreAsClaimed(Out[i].breakdown["price"], Out[i].price,
                                        PositivePrice(Out[i].price), PositivePrices)
              /\ ~PositivePrice(Out[i].price) => Out[i].unitPrice = Infinity
        /\ \A i, j \in OutIdx :
              /\ (PositivePrice(Out[i].price) /\ PositivePrice(Out[j].price)
                     /\ Le(Out[i].price, Out[j].price))
                    => Ge(Out[i].breakdown["price"], Out[j].breakdown["price"])
              /\ (FiniteNumber(Out[i].unitPrice) /\ FiniteNumber(Out[j].unitPrice)
                     /\ Le(Out[i].unitPrice, Out[j].unitPrice))
                    => Ge(Out[i].breakdown["unitPrice"], Out[j].breakdown["unitPrice"])

\* A batch of three: the product with the highest price scores 0 on price, a
\* cheaper one scores more on price than on unit price (the maxima differ),
\* and one without a usable price scores 0 on both.
C22_Witness ==
    /\ Scored
    /\ Len(Out) = 3
    /\ \E i, j, k \in OutIdx :
          /\ Out[i].price = LargestOrOne(PositivePrices)
          /\ Out[i].breakdown["price"] = IntNum(0)
          /\ PositivePrice(Out[j].price)
          /\ Gt(Out[j].breakdown["price"], IntNum(0))
          /\ Out[j].breakdown["unitPrice"] # Out[j].breakdown["price"]
          /\ ~PositivePrice(Out[k].price)
          /\ Out[k].breakdown["unitPrice"] = IntNum(0)

\* reviewCount as the logarithm takes it: a count that is absent or below 1
\* counts as 1.
CountFromOne(x) == IF x.k = "num" /\ x.n >= x.d THEN x ELSE IntNum(1)

ReviewCounts == {CountOrZero(Out[i].reviewCount) : i \in OutIdx}

\* The logarithm to base ten of a power of ten.
LogTen(x) == CHOOSE e \in 0..9 : x.d = 1 /\ x.n = 10 ^ e

\* log(max(reviewCount, 1)) / log(largest) x 100
LogShare(x, largest) == Num(100 * LogTen(CountFromOne(x)), LogTen(largest))

\* C23: with a largest review count of at most 1 every product gets 50;
\* otherwise the sub-score is log(max(reviewCount,1)) / log(largest) x 100:
\* 100 for the largest count, 0 for a count of 0, 1 or none, within [0,100]
\* and never lower for a higher count.
C23_ReviewCountSubScore ==
    ranked.done =>
        LET largest == LargestOrOne(ReviewCounts)
        IN  IF largest = IntNum(1)
            THEN \A i \in OutIdx : Out[i].breakdown["reviewCount"] = IntNum(50)
            ELSE /\ \A i \in OutIdx :
                      LET rc == Out[i].reviewCount
                          sub == Out[i].breakdown["reviewCount"]
                      IN  /\ sub = LogShare(rc, largest)
                          /\ InZeroToHundred(sub)
                          /\ rc = largest => sub = IntNum(100)
                          /\ (rc.k \in {"undef", "null"} \/ rc \in {IntNum(0), IntNum(1)})
                                => sub = IntNum(0)
                 /\ \A i, j \in OutIdx :
                      Le(CountOrZero(Out[i].reviewCount), CountOrZero(Out[j].reviewCount))
                        => Le(Out[i].breakdown["reviewCount"], Out[j].breakdown["reviewCount"])

\* A batch with counts 1, 10 and 100: the sub-scores are 0, 50 and 100.
C23_Witness ==
    /\ Scored
    /\ \E i, j, k \in OutIdx :
          /\ Out[i].reviewCount = IntNum(1) /\ Out[i].breakdown["reviewCount"] = IntNum(0)
          /\ Out[j].reviewCount = IntNum(10) /\ Out[j].breakdown["reviewCount"] = IntNum(50)
          /\ Out[k].reviewCount = IntNum(100) /\ Out[k].breakdown["reviewCount"] = IntNum(100)

\* A batch of two without a review between them: both get the neutral 50.
C23_WitnessNeutral ==
    /\ Scored
    /\ Len(Out) = 2
    /\ \A i \in OutIdx : Out[i].breakdown["reviewCount"] = IntNum(50)

\* A batch whose only prices lie below 1: the floor of 1 is the maximum.
C22_WitnessFloor ==
    /\ Scored
    /\ PositivePrices # {}
    /\ ranked.maxPrice = IntNum(1)
    /\ \A x \in PositivePrices : Lt(x, IntNum(1))

\* The cases of C24 for a shipping struct.
Flagged(shipping) == shipping.k = "obj" /\ (shipping.isPrime \/ shipping.isFree)
CostIs(shipping, sign) ==
    shipping.k = "obj" /\ shipping.cost.k = "num" /\ Sign(shipping.cost) = sign

ShippingScoreAsClaimed(shipping) ==
    IF Flagged(shipping) \/ CostIs(shipping, 0) THEN 100
    ELSE IF CostIs(shipping, 1) THEN 50
    ELSE 25

\* C24: the shipping sub-score is 100 for a Prime or free flag or a cost of
\* 0, else 50 for a positive cost, else 25 (no cost, a null or a negative
\* one, or no shipping struct at all); a flag wins over a positive cost.
C24_ShippingScore ==
    ranked.done =>
        \A i \in OutIdx :
            /\ Out[i].breakdown["shipping"] = IntNum(ShippingScoreAsClaimed(Out[i].shipping))
            /\ Out[i].breakdown["shipping"] \in {IntNum(100), IntNum(50), IntNum(25)}
            /\ (Flagged(Out[i].shipping) /\ CostIs(Out[i].shipping, 1))
                  => Out[i].breakdown["shipping"] = IntNum(100)

\* A batch with a free delivery at a positive cost (100), a positive cost
\* without a flag (50) and a negative cost (25).
C24_Witness ==
    /\ Scored
    /\ \E i, j, k \in OutIdx :
          /\ Flagged(Out[i].shipping) /\ CostIs(Out[i].shipping, 1)
          /\ Out[i].breakdown["shipping"] = IntNum(100)
          /\ ~Flagged(Out[j].shipping) /\ CostIs(Out[j].shipping, 1)
          /\ Out[j].breakdown["shipping"] = IntNum(50)
          /\ CostIs(Out[k].shipping, -1)
          /\ Out[k].breakdown["shipping"] = IntNum(25)

\* A batch with no shipping struct, a struct without a cost and a struct
\* with a cost of 0.
C24_WitnessAbsent ==
    /\ Scored
    /\ \E i, j, k \in OutIdx :
          /\ Out[i].shipping.k = "undef" /\ Out[i].breakdown["shipping"] = IntNum(25)
          /\ Out[j].shipping.k = "obj" /\ Out[j].shipping.cost = Undefined
          /\ ~Flagged(Out[j].shipping) /\ Out[j].breakdown["shipping"] = IntNum(25)
          /\ CostIs(Out[k].shipping, 0) /\ Out[k].breakdown["shipping"] = IntNum(100)

\* The list returned for the same products in another order.
Reordered == directCall.list
ScoredReordered ==
    ranked.done /\ directCall.fn = "scoreProducts" /\ directCall.batch.items # <<>>

\* The position of the product with the given asin in a returned list.
PositionOf(list, asin) == CHOOSE i \in DOMAIN list : list[i].asin = asin

SortedByScore(list) ==
    \A i, j \in DOMAIN list : i < j => list[i].score.n >= list[j].score.n

TopScorers(list) ==
    {list[i].asin : i \in {j \in DOMAIN list :
                               \A k \in DOMAIN list : list[j].score.n >= list[k].score.n}}

Tagged(list) == {list[i].asin : i \in {j \in DOMAIN list : list[j].isBestValue = "true"}}

\* C25: scoring the same products in another order gives every product the
\* same breakdown and score; the two lists differ at most in the order of
\* products with equal scores, and so in which top scorer is tagged.
C25_OrderIndependent ==
    ScoredReordered =>
        /\ ~directCall.threw
        /\ Len(Reordered) = Len(Out)
        /\ \A i \in OutIdx :
              /\ Cardinality({j \in DOMAIN Reordered : Reordered[j].asin = Out[i].asin}) = 1
              /\ Reordered[PositionOf(Reordered, Out[i].asin)].breakdown = Out[i].breakdown
              /\ Reordered[PositionOf(Reordered, Out[i].asin)].score = Out[i].score
        /\ \A i, j \in OutIdx :
              (i < j /\ Out[i].score # Out[j].score)
                => PositionOf(Reordered, Out[i].asin) < PositionOf(Reordered, Out[j].asin)
        /\ SortedByScore(Out) /\ SortedByScore(Reordered)
        /\ Cardinality(Tagged(Out)) = 1 /\ Cardinality(Tagged(Reordered)) = 1
        /\ Tagged(Out) \subseteq TopScorers(Out)
        /\ Tagged(Reordered) \subseteq TopScorers(Out)
        /\ Cardinality(TopScorers(Out)) = 1 => Tagged(Reordered) = Tagged(Out)

\* Three products, two of them tied at the top and one below: the other
\* order returns the tied ones the other way round and tags the other one.
C25_Witness ==
    /\ ScoredReordered
    /\ Len(Out) = 3
    /\ Cardinality(TopScorers(Out)) = 2
    /\ Tagged(Reordered) # Tagged(Out)
    /\ Reordered[3].asin = Out[3].asin
    /\ Out[3].breakdown # Out[1].breakdown

\* The optimize requests received and not yet answered.
InFlight == {r \in REQUESTS : requests[r].pc = "running"}

\* C26: getResults reports isOptimizing exactly when an optimize request
\* is in flight, whatever the interleaving of the messages.
C26_FlagTracksRequests ==
    [][GetResults => popup'.isOptimizing = (InFlight # {})]_vars

Responses(r) == requests[r].responses

\* A request that carries no product or a product without a title.
WithoutProductData(r) == requests[r].pc # "unsent" /\ requests[r].product # "titled"

C28_ClearedStaysCleared ==
    [][GetResults => (popup'.results = Null \/ popup'.results.request \notin cleared)]_vars

\* The requests that were proxied with success and are not yet recorded.
Unrecorded == {h \in HANDLERS : handlers[h].pc = "updating"}

\* The requests that reached the AI service.
Proxied == {h \in HANDLERS : handlers[h].pc \in {"fetching", "updating"} \/ handlers[h].status \in {200, 502}}

\* A user on the free plan is never proxied.
FreeNeverProxied == user.plan = "free" => Proxied = {}

\* C29: for a paid plan the requests proxied with success in a usage
\* period never exceed the quota of the plan, and once every served request
\* is recorded the stored usage_count is their number, for every
\* interleaving; a user on the free plan is never proxied.
C29_UsageWithinQuota ==
    /\ FreeNeverProxied
    /\ (user.plan # "free" /\ ~user.expired) =>
          /\ served <= PLAN_QUOTAS[user.plan]
          /\ Unrecorded = {} => user.usage_count = served

\* The rate-limit responses of C30: 429, and 503 in dev mode.
IsRateLimit(attempt) ==
    attempt.status = 429 \/ (attempt.status = 503 /\ attempt.config = "dev")

RATE_LIMIT_ERROR == "Rate limit exceeded. Please wait a moment and try again."

\* 2000 x 1.5^n
RECURSIVE DelayAfter(_)
DelayAfter(n) == IF n = 0 THEN IntNum(2000) ELSE Mul(DelayAfter(n - 1), Num(3, 2))

\* The responses received so far.
Answered == Len(aiCall.attempts)

\* C30: a call of callAI with the default arguments ends, after at most 4
\* requests; every request but the last was answered with a rate limit (429,
\* or 503 in dev mode), each retry takes one from the retries and multiplies
\* the delay by 1.5; a rate limit with no retry left fails with the
\* rate-limit error, any other response that is not OK fails at once.
C30_CallAIBounded ==
    /\ (aiCall.pc # "idle") ~> (aiCall.pc = "done")
    /\ [](aiCall.pc # "idle" =>
            /\ aiCall.requests <= 4
            /\ Answered = (IF aiCall.pc = "fetching" THEN aiCall.requests - 1
                           ELSE aiCall.requests)
            /\ Len(aiCall.waits) \in {Answered - 1, Answered} \cap 0..3
            /\ \A i \in DOMAIN aiCall.waits :
                  /\ IsRateLimit(aiCall.attempts[i])
                  /\ aiCall.waits[i] = DelayAfter(i - 1)
            /\ \A i \in 1..(Answered - 1) : IsRateLimit(aiCall.attempts[i])
            /\ aiCall.retries = 3 - Len(aiCall.waits)
            /\ aiCall.delay = DelayAfter(Len(aiCall.waits))
            /\ Len(aiCall.waits) < Answered =>
                  LET last == aiCall.attempts[Answered]
                  IN  /\ (IsRateLimit(last) /\ Answered = 4) =>
                            aiCall.pc = "done" /\ aiCall.error = RATE_LIMIT_ERROR
                      /\ (IsRateLimit(last) /\ Answered < 4) => aiCall.pc = "waiting"
                      /\ (~IsRateLimit(last) /\ last.status # 200) =>
                            aiCall.pc = "done" /\ aiCall.error \notin {"none", RATE_LIMIT_ERROR}
                      /\ last.status = 200 => aiCall.pc = "done" /\ aiCall.error = "none")

\* The call has made four requests, answered 429, 503, 429 and 429, has
\* waited 2000, 3000 and 4500 ms and has failed with the rate-limit error.
C30_Witness ==
    /\ aiCall.pc = "done"
    /\ aiCall.requests = 4
    /\ \E i \in 1..4 : aiCall.attempts[i].status = 503
    /\ aiCall.waits = <<IntNum(2000), IntNum(3000), IntNum(4500)>>
    /\ aiCall.delay = IntNum(6750)
    /\ aiCall.retries = 0
    /\ aiCall.error = RATE_LIMIT_ERROR

====
